---- MODULE Spec2Model ----
(***************************************************************************)
(* Availability engine of the scheduling agent: CalendarService            *)
(* (services/calendar_service.py) and SchedulingEngine                     *)
(* (services/scheduling_engine.py).                                        *)
(*                                                                         *)
(* Time.  An instant is an integer: minutes since 00:00 UTC of date 0.     *)
(* A date is an integer day number; date 0 is a Monday, so that            *)
(* date.weekday() is d % 7 (Monday = 0 .. Sunday = 6).  A time zone is a   *)
(* fixed offset from UTC in minutes (no daylight-saving transitions).      *)
(* Every instant the engine handles is a whole minute except time.max      *)
(* (23:59:59.999999), which is modelled as 23:59: for whole-minute         *)
(* operands every comparison against it has the same outcome.              *)
(***************************************************************************)
EXTENDS Integers, Sequences, FiniteSets, TLC

VARIABLES
    calendar_events,   \* CalendarService._calendar_events, all owners, in insertion order
    call,              \* the last call made on the services and its arguments
    locals,            \* the values of the call's local variables when it returned
    result,            \* what the call returned
    memo,              \* the first call recorded and what it returned (history)
    session,           \* st.session_state of the chat page
    sent_emails        \* EmailServiceMock.sent_emails

vars == <<calendar_events, call, locals, result, memo, session, sent_emails>>

\* the state outside the scheduling services
page == <<memo, session, sent_emails>>

(***************************************************************************)
(* Dates, clocks and time zones                                            *)
(***************************************************************************)
MinutesPerHour == 6 * 10
MinutesPerDay == 24 * MinutesPerHour

Max(a, b) == IF a >= b THEN a ELSE b
Min(a, b) == IF a <= b THEN a ELSE b
Abs(a) == IF a < 0 THEN 0 - a ELSE a

\* datetime.date() of a UTC datetime
DateOf(t) == t \div MinutesPerDay
\* date.weekday(): Monday is 0, Sunday is 6
Weekday(d) == d % 7
\* datetime.combine(d, time.min) in UTC
StartOfDay(d) == d * MinutesPerDay
\* datetime.combine(d, time.max) in UTC
EndOfDay(d) == d * MinutesPerDay + (MinutesPerDay - 1)

\* pytz.timezone(name): the zone's offset from UTC, in minutes
UtcOffset(tzname) ==
    CASE tzname = "Asia/Kolkata" -> 330
      [] tzname = "America/Los_Angeles" -> 0 - 480
      [] tzname = "Europe/London" -> 0
      [] OTHER -> 0

\* tz.localize(datetime.combine(d, time(hour, 0))).astimezone(pytz.UTC)
LocalHourToUtc(d, hour, tzname) ==
    d * MinutesPerDay + hour * MinutesPerHour - UtcOffset(tzname)

\* t.astimezone(tz).hour
LocalHour(t, tzname) == ((t + UtcOffset(tzname)) % MinutesPerDay) \div MinutesPerHour

(***************************************************************************)
(* The directory (the data client)                                         *)
(***************************************************************************)
None == "None"

\* date.today()
Today == 10

Managers ==
    [mgr_001 |-> [id |-> "mgr_001", location_timezone |-> "Asia/Kolkata"],
     mgr_002 |-> [id |-> "mgr_002", location_timezone |-> "America/Los_Angeles"],
     mgr_004 |-> [id |-> "mgr_004", location_timezone |-> "Asia/Kolkata"],
     mgr_005 |-> [id |-> "mgr_005", location_timezone |-> "Europe/London"]]

Candidates ==
    [cand_001 |-> [id |-> "cand_001", location_timezone |-> "Asia/Kolkata",
                   start_date |-> Today + 1],
     cand_003 |-> [id |-> "cand_003", location_timezone |-> "America/Los_Angeles",
                   start_date |-> Today + 1]]

\* what a lookup returns for an id that has no entry (Python's None)
NoManager == [id |-> None, location_timezone |-> None]
NoCandidate == [id |-> None, location_timezone |-> None, start_date |-> 0]

get_manager_by_id(manager_id) ==
    IF manager_id \in DOMAIN Managers THEN Managers[manager_id] ELSE NoManager

get_candidate_by_id(candidate_id) ==
    IF candidate_id \in DOMAIN Candidates THEN Candidates[candidate_id] ELSE NoCandidate

(***************************************************************************)
(* Entities                                                                *)
(***************************************************************************)
CalendarEvent(owner, type, s, e) ==
    [owner_id |-> owner, calendar_type |-> type, start |-> s, end |-> e]

TimeSlot(s, e, p, src) ==
    [start |-> s, end |-> e, participants |-> p, source |-> src]

\* a service that forgets the apexon events it found suppressed by a client event
StoredEventsPruned(events) ==
    SelectSeq(events, LAMBDA ev :
        ~(/\ ev.calendar_type = "apexon"
          /\ \E k \in 1..Len(events) :
                /\ events[k].owner_id = ev.owner_id
                /\ events[k].calendar_type = "client"
                /\ ev.start < events[k].end /\ events[k].start < ev.end))

\* self._calendar_events after a call: the getters hand out new lists and no
\* statement of get_merged_availability or find_meeting_proposals writes to the store
StoredEvents(events) == events

(***************************************************************************)
(* CalendarService                                                         *)
(***************************************************************************)
\* self._calendar_events.get(user_id, [])
EventsOf(events, user_id) == SelectSeq(events, LAMBDA ev : ev.owner_id = user_id)

get_apexon_calendar_events(events, user_id) ==
    SelectSeq(EventsOf(events, user_id), LAMBDA ev : ev.calendar_type = "apexon")

get_client_calendar_events(events, user_id) ==
    SelectSeq(EventsOf(events, user_id), LAMBDA ev : ev.calendar_type = "client")

\* a conflict test that sees only an event lying wholly inside an entry
ConflictsContained(busy, s, e) ==
    \E i \in 1..Len(busy) : busy[i][1] <= s /\ e <= busy[i][2]

\* not (event_end_utc <= client_start or event_start_utc >= client_end), for some
\* entry of busy_slots
Conflicts(busy, s, e) ==
    \E i \in 1..Len(busy) : ~(e <= busy[i][1] \/ s >= busy[i][2])

\* the loop over apexon_events: an event is appended unless it conflicts with an
\* entry already in busy_slots
RECURSIVE AddApexonEvents(_, _)
AddApexonEvents(busy, apexon) ==
    IF apexon = <<>> THEN busy
    ELSE LET ev == Head(apexon)
         IN  AddApexonEvents(
                 IF Conflicts(busy, ev.start, ev.end) THEN busy
                 ELSE Append(busy, <<ev.start, ev.end>>),
                 Tail(apexon))

\* list.sort(key=lambda x: x[0]): stable, ascending by start
RECURSIVE InsertByStart(_, _)
InsertByStart(sorted, x) ==
    IF sorted = <<>> THEN <<x>>
    ELSE IF sorted[Len(sorted)][1] <= x[1] THEN Append(sorted, x)
    ELSE Append(InsertByStart(SubSeq(sorted, 1, Len(sorted) - 1), x), sorted[Len(sorted)])

RECURSIVE SortByStart(_)
SortByStart(seq) ==
    IF seq = <<>> THEN <<>>
    ELSE InsertByStart(SortByStart(SubSeq(seq, 1, Len(seq) - 1)), seq[Len(seq)])

\* busy_slots as it stands when the free slots are generated
MergedBusySlots(events, user_id) ==
    LET client == get_client_calendar_events(events, user_id)
        apexon == get_apexon_calendar_events(events, user_id)
        first == [i \in 1..Len(client) |-> <<client[i].start, client[i].end>>]
    IN  SortByStart(AddApexonEvents(first, apexon))

\* day_busy: the busy slots that meet the day's window, clipped to it
DayBusy(busy, slot_start, slot_end) ==
    LET meet == SelectSeq(busy, LAMBDA bs : bs[1] < slot_end /\ bs[2] > slot_start)
    IN  [i \in 1..Len(meet) |->
            <<Max(meet[i][1], slot_start), Min(meet[i][2], slot_end)>>]

\* the gaps emitted without the test gap_start < gap_end
RECURSIVE GapsBetweenUnguarded(_, _, _)
GapsBetweenUnguarded(day_busy, i, user_id) ==
    IF i >= Len(day_busy) THEN <<>>
    ELSE <<TimeSlot(day_busy[i][2], day_busy[i + 1][1], {user_id}, "merged_availability")>>
         \o GapsBetweenUnguarded(day_busy, i + 1, user_id)

\* the gaps between consecutive entries of day_busy, from entry i on
RECURSIVE GapsBetween(_, _, _)
GapsBetween(day_busy, i, user_id) ==
    IF i >= Len(day_busy) THEN <<>>
    ELSE (IF day_busy[i][2] < day_busy[i + 1][1]
          THEN <<TimeSlot(day_busy[i][2], day_busy[i + 1][1], {user_id},
                          "merged_availability")>>
          ELSE <<>>)
         \o GapsBetween(day_busy, i + 1, user_id)

\* the free slots of one day's clamped window
DayFreeSlots(busy, slot_start, slot_end, user_id) ==
    LET day_busy == DayBusy(busy, slot_start, slot_end)
        n == Len(day_busy)
    IN  IF n = 0
        THEN <<TimeSlot(slot_start, slot_end, {user_id}, "merged_availability")>>
        ELSE (IF day_busy[1][1] > slot_start
              THEN <<TimeSlot(slot_start, day_busy[1][1], {user_id},
                              "merged_availability")>>
              ELSE <<>>)
             \o GapsBetween(day_busy, 1, user_id)
             \o (IF day_busy[n][2] < slot_end
                 THEN <<TimeSlot(day_busy[n][2], slot_end, {user_id},
                                 "merged_availability")>>
                 ELSE <<>>)

\* the business window of local date d without the clamp to the overall window
DayWindowUnclamped(d, tzname, start_date, end_date, business_hours_start, business_hours_end) ==
    <<LocalHourToUtc(d, business_hours_start, tzname),
      LocalHourToUtc(d, business_hours_end, tzname)>>

\* a business window taken on the UTC clock, whatever the time zone
DayWindowOnUtc(d, tzname, start_date, end_date, business_hours_start, business_hours_end) ==
    <<Max(LocalHourToUtc(d, business_hours_start, "UTC"), start_date),
      Min(LocalHourToUtc(d, business_hours_end, "UTC"), end_date)>>

\* the clamped business window of local date d, as <<slot_start, slot_end>>
DayWindow(d, tzname, start_date, end_date, business_hours_start, business_hours_end) ==
    <<Max(LocalHourToUtc(d, business_hours_start, tzname), start_date),
      Min(LocalHourToUtc(d, business_hours_end, tzname), end_date)>>

\* the loop over the days current_date .. end_date.date()
RECURSIVE FreeSlotsFrom(_, _, _, _, _, _, _, _)
FreeSlotsFrom(current_date, busy, user_id, tzname, start_date, end_date, business_hours_start, business_hours_end) ==
    IF current_date > DateOf(end_date) THEN <<>>
    ELSE LET w == DayWindow(current_date, tzname, start_date, end_date,
                            business_hours_start, business_hours_end)
         IN  (IF Weekday(current_date) < 5 /\ w[1] < w[2]
              THEN DayFreeSlots(busy, w[1], w[2], user_id)
              ELSE <<>>)
             \o FreeSlotsFrom(current_date + 1, busy, user_id, tzname, start_date,
                              end_date, business_hours_start, business_hours_end)

\* a resolver without the directory guard: a person with no entry is resolved on UTC
get_merged_availability_unguarded(events, user_id, start_date, end_date, business_hours_start, business_hours_end) ==
    LET manager == get_manager_by_id(user_id)
    IN  FreeSlotsFrom(DateOf(start_date), MergedBusySlots(events, user_id),
                      user_id, manager.location_timezone, start_date, end_date,
                      business_hours_start, business_hours_end)

get_merged_availability(events, user_id, start_date, end_date, business_hours_start, business_hours_end) ==
    LET manager == get_manager_by_id(user_id)
    IN  IF manager = NoManager THEN <<>>
        ELSE FreeSlotsFrom(DateOf(start_date), MergedBusySlots(events, user_id),
                           user_id, manager.location_timezone, start_date, end_date,
                           business_hours_start, business_hours_end)

(***************************************************************************)
(* SchedulingEngine                                                        *)
(***************************************************************************)
\* the loop over the days current_date .. end_datetime.date()
RECURSIVE CandidateSlotsFrom(_, _, _, _, _, _)
CandidateSlotsFrom(current_date, candidate, start_datetime, end_datetime, business_hours_start, business_hours_end) ==
    IF current_date > DateOf(end_datetime) THEN <<>>
    ELSE LET w == DayWindow(current_date, candidate.location_timezone, start_datetime,
                            end_datetime, business_hours_start, business_hours_end)
         IN  (IF Weekday(current_date) < 5 /\ w[1] < w[2]
              THEN <<TimeSlot(w[1], w[2], {candidate.id}, "candidate_business_hours")>>
              ELSE <<>>)
             \o CandidateSlotsFrom(current_date + 1, candidate, start_datetime,
                                   end_datetime, business_hours_start, business_hours_end)

get_candidate_availability(candidate, start_datetime, end_datetime, business_hours_start, business_hours_end) ==
    CandidateSlotsFrom(DateOf(start_datetime), candidate, start_datetime, end_datetime,
                       business_hours_start, business_hours_end)

\* an intersection that finds the overlapping pairs but keeps slot1's end
RECURSIVE IntersectOneKeepEnd(_, _)
IntersectOneKeepEnd(slot1, slots2) ==
    IF slots2 = <<>> THEN <<>>
    ELSE LET slot2 == Head(slots2)
             overlap_start == Max(slot1.start, slot2.start)
             overlap_end == Min(slot1.end, slot2.end)
         IN  (IF overlap_start < overlap_end
              THEN <<TimeSlot(overlap_start, slot1.end,
                              slot1.participants \cup slot2.participants,
                              "intersection")>>
              ELSE <<>>)
             \o IntersectOneKeepEnd(slot1, Tail(slots2))

\* an intersection that ends every overlap at slot1.end
RECURSIVE IntersectOneLeftEnd(_, _)
IntersectOneLeftEnd(slot1, slots2) ==
    IF slots2 = <<>> THEN <<>>
    ELSE LET slot2 == Head(slots2)
             overlap_start == Max(slot1.start, slot2.start)
             overlap_end == slot1.end
         IN  (IF overlap_start < overlap_end
              THEN <<TimeSlot(overlap_start, overlap_end,
                              slot1.participants \cup slot2.participants,
                              "intersection")>>
              ELSE <<>>)
             \o IntersectOneLeftEnd(slot1, Tail(slots2))

\* an intersection that also emits the pairs that only touch at an endpoint
RECURSIVE IntersectOneInclusive(_, _)
IntersectOneInclusive(slot1, slots2) ==
    IF slots2 = <<>> THEN <<>>
    ELSE LET slot2 == Head(slots2)
             overlap_start == Max(slot1.start, slot2.start)
             overlap_end == Min(slot1.end, slot2.end)
         IN  (IF overlap_start <= overlap_end
              THEN <<TimeSlot(overlap_start, overlap_end,
                              slot1.participants \cup slot2.participants,
                              "intersection")>>
              ELSE <<>>)
             \o IntersectOneInclusive(slot1, Tail(slots2))

\* the inner loop of _intersect_slots: slot1 against every slot of slots2
RECURSIVE IntersectOne(_, _)
IntersectOne(slot1, slots2) ==
    IF slots2 = <<>> THEN <<>>
    ELSE LET slot2 == Head(slots2)
             overlap_start == Max(slot1.start, slot2.start)
             overlap_end == Min(slot1.end, slot2.end)
         IN  (IF overlap_start < overlap_end
              THEN <<TimeSlot(overlap_start, overlap_end,
                              slot1.participants \cup slot2.participants,
                              "intersection")>>
              ELSE <<>>)
             \o IntersectOne(slot1, Tail(slots2))

RECURSIVE intersect_slots(_, _)
intersect_slots(slots1, slots2) ==
    IF slots1 = <<>> THEN <<>>
    ELSE IntersectOne(Head(slots1), slots2) \o intersect_slots(Tail(slots1), slots2)

\* a slicer that advances by a quarter of an hour instead of by the duration
RECURSIVE SplitFromSliding(_, _, _)
SplitFromSliding(slot, current_start, duration_minutes) ==
    IF current_start + duration_minutes <= slot.end
    THEN <<TimeSlot(current_start, current_start + duration_minutes,
                    slot.participants, slot.source)>>
         \o SplitFromSliding(slot, current_start + 15, duration_minutes)
    ELSE <<>>

\* a slicer whose loop test is < instead of <=
RECURSIVE SplitFromStrict(_, _, _)
SplitFromStrict(slot, current_start, duration_minutes) ==
    IF current_start + duration_minutes < slot.end
    THEN <<TimeSlot(current_start, current_start + duration_minutes,
                    slot.participants, slot.source)>>
         \o SplitFromStrict(slot, current_start + duration_minutes, duration_minutes)
    ELSE <<>>

\* the while loop of _split_slots_by_duration on one slot, from current_start on
\* (duration_minutes > 0)
RECURSIVE SplitFrom(_, _, _)
SplitFrom(slot, current_start, duration_minutes) ==
    IF current_start + duration_minutes <= slot.end
    THEN <<TimeSlot(current_start, current_start + duration_minutes,
                    slot.participants, slot.source)>>
         \o SplitFrom(slot, current_start + duration_minutes, duration_minutes)
    ELSE <<>>

SplitOne(slot, duration_minutes) == SplitFrom(slot, slot.start, duration_minutes)

RECURSIVE split_slots_by_duration(_, _)
split_slots_by_duration(slots, duration_minutes) ==
    IF slots = <<>> THEN <<>>
    ELSE SplitOne(Head(slots), duration_minutes)
         \o split_slots_by_duration(Tail(slots), duration_minutes)

\* a fold that passes over a manager with whom no time is shared
RECURSIVE FoldIntersectSkipEmpty(_, _)
FoldIntersectSkipEmpty(overlapping, manager_availabilities) ==
    IF manager_availabilities = <<>> THEN overlapping
    ELSE LET common == intersect_slots(overlapping, Head(manager_availabilities).slots)
         IN  FoldIntersectSkipEmpty(IF common = <<>> THEN overlapping ELSE common,
                                    Tail(manager_availabilities))

\* the loop over manager_availabilities.items(), a sequence of [id, slots] in
\* insertion order
RECURSIVE FoldIntersect(_, _)
FoldIntersect(overlapping, manager_availabilities) ==
    IF manager_availabilities = <<>> THEN overlapping
    ELSE FoldIntersect(intersect_slots(overlapping, Head(manager_availabilities).slots),
                       Tail(manager_availabilities))

\* a variant whose no-manager branch returns the candidate's slots unsliced
find_overlapping_slots_unsliced(candidate_slots, manager_availabilities, duration_minutes) ==
    IF manager_availabilities = <<>>
    THEN candidate_slots
    ELSE split_slots_by_duration(FoldIntersect(candidate_slots, manager_availabilities),
                                 duration_minutes)

\* a variant that returns nothing when no manager's availability was collected
find_overlapping_slots_requires_manager(candidate_slots, manager_availabilities, duration_minutes) ==
    IF manager_availabilities = <<>>
    THEN <<>>
    ELSE split_slots_by_duration(FoldIntersect(candidate_slots, manager_availabilities),
                                 duration_minutes)

find_overlapping_slots(candidate_slots, manager_availabilities, duration_minutes) ==
    IF manager_availabilities = <<>>
    THEN split_slots_by_duration(candidate_slots, duration_minutes)
    ELSE split_slots_by_duration(FoldIntersect(candidate_slots, manager_availabilities),
                                 duration_minutes)

\* the loop over all_participants in _create_proposal: the business-hours violations,
\* in participant order (a participant with no directory entry is skipped)
RECURSIVE BusinessHoursViolations(_, _, _, _, _)
BusinessHoursViolations(participants, slot, candidate, business_hours_start, business_hours_end) ==
    IF participants = <<>> THEN <<>>
    ELSE LET participant_id == Head(participants)
             manager == get_manager_by_id(participant_id)
             rest == BusinessHoursViolations(Tail(participants), slot, candidate,
                                             business_hours_start, business_hours_end)
             tz == IF participant_id = candidate.id THEN candidate.location_timezone
                   ELSE manager.location_timezone
             hour == LocalHour(slot.start, tz)
         IN  IF participant_id # candidate.id /\ manager = NoManager THEN rest
             ELSE IF hour < business_hours_start
                  THEN <<"Before business hours for " \o participant_id>> \o rest
             ELSE IF hour >= business_hours_end
                  THEN <<"After business hours for " \o participant_id>> \o rest
             ELSE rest

\* a scorer that takes 40 off after the deadline
create_proposal_deadline40(slot, request, candidate, all_participants, business_hours_start, business_hours_end) ==
    LET slot_date == DateOf(slot.start)
        late == slot_date > request.deadline_date
        days_from_start == Abs(slot_date - candidate.start_date)
        hours == BusinessHoursViolations(all_participants, slot, candidate,
                                         business_hours_start, business_hours_end)
        candidate_hour == LocalHour(slot.start, candidate.location_timezone)
        score == 100
                 - (IF late THEN 40 ELSE 0)
                 - (IF days_from_start > 7 THEN 20 ELSE IF days_from_start > 3 THEN 10 ELSE 0)
                 - 15 * Len(hours)
                 + (IF 9 <= candidate_hour /\ candidate_hour < 12 THEN 10
                    ELSE IF candidate_hour >= 17 THEN 0 - 5 ELSE 0)
                 + (IF Weekday(DateOf(slot.start)) < 5 THEN 5 ELSE 0)
    IN  [time_slot |-> slot,
         meeting_type |-> request.meeting_type,
         score |-> Max(0, score),
         constraints_violated |-> (IF late THEN <<"After deadline">> ELSE <<>>) \o hours]

\* a scorer that returns the score without the floor at 0
create_proposal_unfloored(slot, request, candidate, all_participants, business_hours_start, business_hours_end) ==
    LET slot_date == DateOf(slot.start)
        late == slot_date > request.deadline_date
        days_from_start == Abs(slot_date - candidate.start_date)
        hours == BusinessHoursViolations(all_participants, slot, candidate,
                                         business_hours_start, business_hours_end)
        candidate_hour == LocalHour(slot.start, candidate.location_timezone)
        score == 100
                 - (IF late THEN 50 ELSE 0)
                 - (IF days_from_start > 7 THEN 20 ELSE IF days_from_start > 3 THEN 10 ELSE 0)
                 - 15 * Len(hours)
                 + (IF 9 <= candidate_hour /\ candidate_hour < 12 THEN 10
                    ELSE IF candidate_hour >= 17 THEN 0 - 5 ELSE 0)
                 + (IF Weekday(DateOf(slot.start)) < 5 THEN 5 ELSE 0)
    IN  [time_slot |-> slot,
         meeting_type |-> request.meeting_type,
         score |-> score,
         constraints_violated |-> (IF late THEN <<"After deadline">> ELSE <<>>) \o hours]

\* a scorer whose distance tiers are two ifs: beyond 7 days both apply
create_proposal_both_tiers(slot, request, candidate, all_participants, business_hours_start, business_hours_end) ==
    LET slot_date == DateOf(slot.start)
        late == slot_date > request.deadline_date
        days_from_start == Abs(slot_date - candidate.start_date)
        hours == BusinessHoursViolations(all_participants, slot, candidate,
                                         business_hours_start, business_hours_end)
        candidate_hour == LocalHour(slot.start, candidate.location_timezone)
        score == 100
                 - (IF late THEN 50 ELSE 0)
                 - ((IF days_from_start > 7 THEN 20 ELSE 0) + (IF days_from_start > 3 THEN 10 ELSE 0))
                 - 15 * Len(hours)
                 + (IF 9 <= candidate_hour /\ candidate_hour < 12 THEN 10
                    ELSE IF candidate_hour >= 17 THEN 0 - 5 ELSE 0)
                 + (IF Weekday(DateOf(slot.start)) < 5 THEN 5 ELSE 0)
    IN  [time_slot |-> slot,
         meeting_type |-> request.meeting_type,
         score |-> Max(0, score),
         constraints_violated |-> (IF late THEN <<"After deadline">> ELSE <<>>) \o hours]

\* a scorer that takes the slot date in the candidate's time zone
create_proposal_local_date(slot, request, candidate, all_participants, business_hours_start, business_hours_end) ==
    LET slot_date == DateOf(slot.start + UtcOffset(candidate.location_timezone))
        late == slot_date > request.deadline_date
        days_from_start == Abs(slot_date - candidate.start_date)
        hours == BusinessHoursViolations(all_participants, slot, candidate,
                                         business_hours_start, business_hours_end)
        candidate_hour == LocalHour(slot.start, candidate.location_timezone)
        score == 100
                 - (IF late THEN 50 ELSE 0)
                 - (IF days_from_start > 7 THEN 20 ELSE IF days_from_start > 3 THEN 10 ELSE 0)
                 - 15 * Len(hours)
                 + (IF 9 <= candidate_hour /\ candidate_hour < 12 THEN 10
                    ELSE IF candidate_hour >= 17 THEN 0 - 5 ELSE 0)
                 + (IF Weekday(DateOf(slot.start)) < 5 THEN 5 ELSE 0)
    IN  [time_slot |-> slot,
         meeting_type |-> request.meeting_type,
         score |-> Max(0, score),
         constraints_violated |-> (IF late THEN <<"After deadline">> ELSE <<>>) \o hours]

\* a scorer that notes the deadline after the business hours
create_proposal_deadline_last(slot, request, candidate, all_participants, business_hours_start, business_hours_end) ==
    LET slot_date == DateOf(slot.start)
        late == slot_date > request.deadline_date
        days_from_start == Abs(slot_date - candidate.start_date)
        hours == BusinessHoursViolations(all_participants, slot, candidate,
                                         business_hours_start, business_hours_end)
        candidate_hour == LocalHour(slot.start, candidate.location_timezone)
        score == 100
                 - (IF late THEN 50 ELSE 0)
                 - (IF days_from_start > 7 THEN 20 ELSE IF days_from_start > 3 THEN 10 ELSE 0)
                 - 15 * Len(hours)
                 + (IF 9 <= candidate_hour /\ candidate_hour < 12 THEN 10
                    ELSE IF candidate_hour >= 17 THEN 0 - 5 ELSE 0)
                 + (IF Weekday(DateOf(slot.start)) < 5 THEN 5 ELSE 0)
    IN  [time_slot |-> slot,
         meeting_type |-> request.meeting_type,
         score |-> Max(0, score),
         constraints_violated |-> hours \o (IF late THEN <<"After deadline">> ELSE <<>>)]

create_proposal(slot, request, candidate, all_participants, business_hours_start, business_hours_end) ==
    LET slot_date == DateOf(slot.start)
        late == slot_date > request.deadline_date
        days_from_start == Abs(slot_date - candidate.start_date)
        hours == BusinessHoursViolations(all_participants, slot, candidate,
                                         business_hours_start, business_hours_end)
        candidate_hour == LocalHour(slot.start, candidate.location_timezone)
        score == 100
                 - (IF late THEN 50 ELSE 0)
                 - (IF days_from_start > 7 THEN 20 ELSE IF days_from_start > 3 THEN 10 ELSE 0)
                 - 15 * Len(hours)
                 + (IF 9 <= candidate_hour /\ candidate_hour < 12 THEN 10
                    ELSE IF candidate_hour >= 17 THEN 0 - 5 ELSE 0)
                 + (IF Weekday(DateOf(slot.start)) < 5 THEN 5 ELSE 0)
    IN  [time_slot |-> slot,
         meeting_type |-> request.meeting_type,
         score |-> Max(0, score),
         constraints_violated |-> (IF late THEN <<"After deadline">> ELSE <<>>) \o hours]

\* an ascending sort followed by a reversal: ties come out in reverse input order
SortByScoreTiesReversed(seq) ==
    LET n == Len(seq)
        score == [i \in 1..n |-> seq[i].score] \o <<>>
        position == [i \in 1..n |->
                        1 + Cardinality({j \in 1..n :
                                \/ score[j] > score[i]
                                \/ (score[j] = score[i] /\ j > i)})] \o <<>>
    IN  [k \in 1..n |-> seq[CHOOSE i \in 1..n : position[i] = k]]

\* list.sort(key=lambda p: p.score, reverse=True): stable, descending by score.
\* Element i lands after every element with a higher score and after the earlier
\* elements with an equal score.
SortByScore(seq) ==
    LET n == Len(seq)
        score == [i \in 1..n |-> seq[i].score] \o <<>>
        position == [i \in 1..n |->
                        1 + Cardinality({j \in 1..n :
                                \/ score[j] > score[i]
                                \/ (score[j] = score[i] /\ j < i)})] \o <<>>
    IN  [k \in 1..n |-> seq[CHOOSE i \in 1..n : position[i] = k]]

\* the loop over request.participants that fills the dict manager_availabilities
RECURSIVE ManagerAvailabilities(_, _, _, _, _, _, _, _)
ManagerAvailabilities(collected, participants, events, candidate_id, start_datetime, end_datetime, business_hours_start, business_hours_end) ==
    IF participants = <<>> THEN collected
    ELSE LET manager_id == Head(participants)
             free_slots == get_merged_availability(events, manager_id, start_datetime,
                               end_datetime, business_hours_start, business_hours_end)
             present == \E i \in 1..Len(collected) : collected[i].id = manager_id
             next == IF manager_id = candidate_id THEN collected
                     ELSE IF get_manager_by_id(manager_id) = NoManager THEN collected
                     ELSE IF present THEN collected
                     ELSE Append(collected, [id |-> manager_id, slots |-> free_slots])
         IN  ManagerAvailabilities(next, Tail(participants), events, candidate_id,
                 start_datetime, end_datetime, business_hours_start, business_hours_end)

\* a slice that keeps one element too many: seq[:n + 1]
TakeOneMore(seq, n) == SubSeq(seq, 1, Min(n + 1, Len(seq)))

\* the first n elements: seq[:n]
Take(seq, n) == SubSeq(seq, 1, Min(n, Len(seq)))

\* an absent (None) start_date or end_date argument
NoDate == 0 - 1

\* find_meeting_proposals without the repair of an end date that is not after the start
FindMeetingProposalsLocals_unrepaired(events, request, business_hours_start, business_hours_end, start_date, end_date, days_before_start, days_after_start, today) ==
    LET candidate == get_candidate_by_id(request.candidate_id)
        start0 == IF start_date = NoDate THEN candidate.start_date - days_before_start
                  ELSE start_date
        start1 == IF start0 < today THEN today ELSE start0
        end0 == IF end_date = NoDate THEN candidate.start_date + days_after_start
                ELSE end_date
        end1 == end0
        start_datetime == StartOfDay(start1)
        end_datetime == EndOfDay(end1)
        candidate_free_slots ==
            get_candidate_availability(candidate, start_datetime, end_datetime,
                                       business_hours_start, business_hours_end)
        manager_availabilities ==
            ManagerAvailabilities(<<>>, request.participants, events, request.candidate_id,
                start_datetime, end_datetime, business_hours_start, business_hours_end)
        all_participants ==
            <<request.candidate_id>>
            \o SelectSeq(request.participants, LAMBDA p : p # request.candidate_id)
        overlapping_slots ==
            find_overlapping_slots(candidate_free_slots, manager_availabilities,
                                   request.duration_minutes)
        proposals ==
            [i \in 1..Len(overlapping_slots) |->
                create_proposal(overlapping_slots[i], request, candidate, all_participants,
                                business_hours_start, business_hours_end)]
    IN  IF candidate = NoCandidate
        THEN [candidate |-> NoCandidate]
        ELSE [candidate |-> candidate,
              start_date |-> start1,
              end_date |-> end1,
              start_datetime |-> start_datetime,
              end_datetime |-> end_datetime,
              candidate_free_slots |-> candidate_free_slots,
              manager_availabilities |-> manager_availabilities,
              all_participants |-> all_participants,
              overlapping |-> FoldIntersect(candidate_free_slots, manager_availabilities),
              overlapping_slots |-> overlapping_slots,
              proposals |-> SortByScore(proposals)]

\* the local variables of find_meeting_proposals when it returns
FindMeetingProposalsLocals(events, request, business_hours_start, business_hours_end, start_date, end_date, days_before_start, days_after_start, today) ==
    LET candidate == get_candidate_by_id(request.candidate_id)
        start0 == IF start_date = NoDate THEN candidate.start_date - days_before_start
                  ELSE start_date
        start1 == IF start0 < today THEN today ELSE start0
        end0 == IF end_date = NoDate THEN candidate.start_date + days_after_start
                ELSE end_date
        end1 == IF end0 <= start1 THEN start1 + 7 ELSE end0
        start_datetime == StartOfDay(start1)
        end_datetime == EndOfDay(end1)
        candidate_free_slots ==
            get_candidate_availability(candidate, start_datetime, end_datetime,
                                       business_hours_start, business_hours_end)
        manager_availabilities ==
            ManagerAvailabilities(<<>>, request.participants, events, request.candidate_id,
                start_datetime, end_datetime, business_hours_start, business_hours_end)
        all_participants ==
            <<request.candidate_id>>
            \o SelectSeq(request.participants, LAMBDA p : p # request.candidate_id)
        overlapping_slots ==
            find_overlapping_slots(candidate_free_slots, manager_availabilities,
                                   request.duration_minutes)
        proposals ==
            [i \in 1..Len(overlapping_slots) |->
                create_proposal(overlapping_slots[i], request, candidate, all_participants,
                                business_hours_start, business_hours_end)]
    IN  IF candidate = NoCandidate
        THEN [candidate |-> NoCandidate]
        ELSE [candidate |-> candidate,
              start_date |-> start1,
              end_date |-> end1,
              start_datetime |-> start_datetime,
              end_datetime |-> end_datetime,
              candidate_free_slots |-> candidate_free_slots,
              manager_availabilities |-> manager_availabilities,
              all_participants |-> all_participants,
              overlapping |-> FoldIntersect(candidate_free_slots, manager_availabilities),
              overlapping_slots |-> overlapping_slots,
              proposals |-> SortByScore(proposals)]

\* what find_meeting_proposals returns, given its local variables l
find_meeting_proposals(l, max_proposals) ==
    IF l.candidate = NoCandidate THEN <<>> ELSE Take(l.proposals, max_proposals)

(***************************************************************************)
(* Inputs: the calendars the service may hold and the arguments of a call  *)
(***************************************************************************)
\* the longest calendar (events of all owners together)
MaxEvents == 2

\* the day the calendar events lie on (a Friday)
EventDay == Today + 1

\* an instant given as a local wall-clock minute of a local date
LocalMinuteToUtc(d, minute, tzname) == d * MinutesPerDay + minute - UtcOffset(tzname)

\* local <<start, end>> of the events of mgr_001, as minutes of EventDay:
\* 08:00-10:00, 10:00-11:00, 09:00-13:00
Mgr001Intervals == {<<480, 600>>, <<600, 660>>, <<540, 780>>}

\* local <<start, end>> of the (client) events of mgr_004: 10:30-12:00
Mgr004Intervals == {<<630, 720>>}

EventPool ==
    {CalendarEvent("mgr_001", type,
                   LocalMinuteToUtc(EventDay, iv[1], "Asia/Kolkata"),
                   LocalMinuteToUtc(EventDay, iv[2], "Asia/Kolkata")) :
        type \in {"apexon", "client"}, iv \in Mgr001Intervals}
    \cup
    {CalendarEvent("mgr_004", "client",
                   LocalMinuteToUtc(EventDay, iv[1], "Asia/Kolkata"),
                   LocalMinuteToUtc(EventDay, iv[2], "Asia/Kolkata")) :
        iv \in Mgr004Intervals}

Calendars == UNION {[1..n -> EventPool] : n \in 0..MaxEvents}

\* user ids asked for: four with a directory entry, one without
UserIds == {"mgr_001", "mgr_002", "mgr_004", "mgr_005", "mgr_x"}

\* <<start_date, end_date>> of a get_merged_availability call: EventDay alone,
\* Thursday to Saturday, a window inside EventDay (05:00-10:00 UTC), the weekend
Windows ==
    {<<StartOfDay(EventDay), EndOfDay(EventDay)>>,
     <<StartOfDay(Today), EndOfDay(EventDay + 1)>>,
     <<StartOfDay(EventDay) + 5 * MinutesPerHour, StartOfDay(EventDay) + 10 * MinutesPerHour>>,
     <<StartOfDay(EventDay + 1), EndOfDay(EventDay + 2)>>}

\* <<business_hours_start, business_hours_end>>
BusinessHours == {<<9, 18>>, <<10, 12>>}

\* request.candidate_id: one with a directory entry, one without
CandidateIds == {"cand_001", "cand_x"}

\* request.participants
ParticipantLists ==
    {<<>>, <<"mgr_001">>, <<"mgr_x">>, <<"mgr_002">>,
     <<"mgr_004", "mgr_001">>, <<"cand_001", "mgr_001", "mgr_005">>}

\* request.duration_minutes
Durations == {30, 60}

\* request.deadline_date: the Sunday after EventDay
Deadlines == {Today + 3}

\* the requests: an hour with every list of participants, half an hour with the
\* manager in Los Angeles
Requests ==
    {request \in [candidate_id : CandidateIds, participants : ParticipantLists,
                  duration_minutes : Durations, deadline_date : Deadlines,
                  meeting_type : {"Intro with Hiring Manager"}] :
        request.duration_minutes = 60 \/ request.participants = <<"mgr_002">>}

\* <<start_date, end_date>> of a find_meeting_proposals call: both absent, yesterday
\* to EventDay, yesterday to yesterday (an end date that is not after the start)
DateRanges == {<<NoDate, NoDate>>, <<Today - 1, EventDay>>, <<Today - 1, Today - 1>>}

\* max_proposals
MaxProposals == {5}

Idle == [op |-> "idle"]

\* st.session_state before the page has set it up
NoSession == [op |-> "none"]

(***************************************************************************)
(* The service as a state machine                                          *)
(***************************************************************************)
Init ==
    /\ calendar_events \in Calendars
    /\ memo = Idle
    /\ session = NoSession
    /\ sent_emails = <<>>
    /\ call = Idle
    /\ locals = Idle
    /\ result = <<>>

\* CalendarService.get_merged_availability
GetMergedAvailability ==
    /\ call = Idle
    /\ \E user_id \in UserIds, w \in Windows, bh \in BusinessHours :
        /\ call' = [op |-> "get_merged_availability", user_id |-> user_id,
                    start_date |-> w[1], end_date |-> w[2],
                    business_hours_start |-> bh[1], business_hours_end |-> bh[2]]
        /\ locals' = [busy_slots |->
                        IF get_manager_by_id(user_id) = NoManager THEN <<>>
                        ELSE MergedBusySlots(calendar_events, user_id)]
        /\ result' = get_merged_availability(calendar_events, user_id, w[1], w[2], bh[1], bh[2])
    /\ calendar_events' = StoredEvents(calendar_events)
    /\ UNCHANGED page

\* SchedulingEngine.find_meeting_proposals, with its defaults days_before_start = 3 and
\* days_after_start = 7
FindMeetingProposals ==
    /\ call = Idle
    /\ \E request \in Requests, bh \in {<<9, 18>>}, dr \in DateRanges, max_proposals \in MaxProposals :
        /\ call' = [op |-> "find_meeting_proposals", request |-> request,
                    business_hours_start |-> bh[1], business_hours_end |-> bh[2],
                    start_date |-> dr[1], end_date |-> dr[2],
                    days_before_start |-> 3, days_after_start |-> 7,
                    max_proposals |-> max_proposals, today |-> Today]
        /\ locals' = FindMeetingProposalsLocals(calendar_events, request, bh[1], bh[2],
                                                dr[1], dr[2], 3, 7, Today)
        /\ result' = find_meeting_proposals(locals', max_proposals)
    /\ calendar_events' = StoredEvents(calendar_events)
    /\ UNCHANGED page

\* the caller takes the result: the call's frame is gone
Return ==
    /\ call # Idle
    /\ call' = Idle
    /\ locals' = Idle
    /\ result' = <<>>
    /\ UNCHANGED calendar_events
    /\ UNCHANGED page

Next == GetMergedAvailability \/ FindMeetingProposals \/ Return

Spec == Init /\ [][Next]_vars

(***************************************************************************)
(* _intersect_slots and _split_slots_by_duration on arbitrary slot lists   *)
(***************************************************************************)
\* the longest slot list handed to _intersect_slots or _split_slots_by_duration
MaxSlots == 2

\* <<start, end>> in minutes: overlapping, touching, nested and disjoint intervals
SlotIntervals == {<<0, 60>>, <<30, 90>>, <<60, 120>>, <<0, 120>>}

\* the slot lists of one participant
SlotLists(participant, intervals) ==
    UNION {[1..n -> {TimeSlot(iv[1], iv[2], {participant}, "merged_availability") :
                        iv \in intervals}] : n \in 0..MaxSlots}

\* the lists of a three-way fold draw on fewer intervals
FoldIntervals == {<<0, 60>>, <<30, 90>>, <<0, 120>>}

\* <<start, end>> of the slots to slice: 70, 30, 20 and 90 minutes long
SplitIntervals == {<<0, 70>>, <<15, 45>>, <<0, 20>>, <<30, 120>>}

\* duration_minutes
SplitDurations == {7, 15, 30, 45, 60}

InitPure ==
    /\ calendar_events = <<>>
    /\ memo = Idle
    /\ session = NoSession
    /\ sent_emails = <<>>
    /\ call = Idle
    /\ locals = Idle
    /\ result = <<>>

\* SchedulingEngine._intersect_slots
IntersectSlots ==
    /\ call = Idle
    /\ \E slots1 \in SlotLists("cand_001", SlotIntervals), slots2 \in SlotLists("mgr_001", SlotIntervals) :
        /\ call' = [op |-> "intersect_slots", slots1 |-> slots1, slots2 |-> slots2]
        /\ result' = intersect_slots(slots1, slots2)
    /\ locals' = Idle
    /\ UNCHANGED calendar_events
    /\ UNCHANGED page

\* the fold of _find_overlapping_slots over two managers' lists
FoldSlots ==
    /\ call = Idle
    /\ \E slots1 \in SlotLists("cand_001", FoldIntervals), slots2 \in SlotLists("mgr_001", FoldIntervals), slots3 \in SlotLists("mgr_004", FoldIntervals) :
        /\ call' = [op |-> "fold", lists |-> <<slots1, slots2, slots3>>]
        /\ result' = FoldIntersect(slots1, <<[id |-> "mgr_001", slots |-> slots2],
                                            [id |-> "mgr_004", slots |-> slots3]>>)
    /\ locals' = Idle
    /\ UNCHANGED calendar_events
    /\ UNCHANGED page

\* SchedulingEngine._split_slots_by_duration
SplitSlots ==
    /\ call = Idle
    /\ \E slots \in SlotLists("cand_001", SplitIntervals), duration_minutes \in SplitDurations :
        /\ call' = [op |-> "split_slots_by_duration", slots |-> slots,
                    duration_minutes |-> duration_minutes]
        /\ result' = split_slots_by_duration(slots, duration_minutes)
    /\ locals' = Idle
    /\ UNCHANGED calendar_events
    /\ UNCHANGED page

NextIntersect == IntersectSlots \/ FoldSlots \/ Return
SpecIntersect == InitPure /\ [][NextIntersect]_vars

NextSplit == SplitSlots \/ Return
SpecSplit == InitPure /\ [][NextSplit]_vars

\* <<start, end>> of the slots of the two lists: overlapping, touching and disjoint
OverlapIntervals == {<<0, 60>>, <<30, 90>>, <<60, 120>>}

\* the participant sets of the slots of the first list: the candidate alone, or the
\* candidate with a manager already intersected
OverlapParticipants == {{"cand_001"}, {"cand_001", "mgr_004"}}

\* the first list handed to _intersect_slots
OverlapLists ==
    UNION {[1..n -> {TimeSlot(iv[1], iv[2], ps, src) :
                        iv \in OverlapIntervals, ps \in OverlapParticipants,
                        src \in {"candidate_availability"}}] : n \in 0..MaxSlots}

\* duration_minutes of the slices
OverlapDurations == {30, 60}

\* the body of _find_overlapping_slots for one manager: the lists are intersected and
\* the intersection is sliced
IntersectThenSplit ==
    /\ call = Idle
    /\ \E slots1 \in OverlapLists, slots2 \in SlotLists("mgr_001", OverlapIntervals), duration_minutes \in OverlapDurations :
        /\ call' = [op |-> "intersect_then_split", slots1 |-> slots1, slots2 |-> slots2,
                    duration_minutes |-> duration_minutes]
        /\ locals' = [overlapping |-> intersect_slots(slots1, slots2)]
        /\ result' = split_slots_by_duration(intersect_slots(slots1, slots2), duration_minutes)
    /\ UNCHANGED calendar_events
    /\ UNCHANGED page

NextOverlap == IntersectThenSplit \/ SplitSlots \/ Return
SpecOverlap == InitPure /\ [][NextOverlap]_vars

(***************************************************************************)
(* The loops of _split_slots_by_duration, one iteration at a time          *)
(***************************************************************************)
\* the slices that are recorded of a loop whose duration is not above zero; of the
\* iterations after them only the parity of their number is kept
MaxSlices == 8

\* duration_minutes, with the values a request is free to carry
LoopDurations == {0 - 30, 0, 30, 60}

\* _split_slots_by_duration is entered: result = [], the for loop is before its
\* first slot
SliceCall ==
    /\ call = Idle
    /\ \E slots \in SlotLists("cand_001", SplitIntervals), duration_minutes \in LoopDurations :
        call' = [op |-> "split_loop", slots |-> slots, duration_minutes |-> duration_minutes]
    /\ locals' = [pc |-> "for", i |-> 1, current_start |-> 0, unrecorded |-> 0]
    /\ result' = <<>>
    /\ UNCHANGED calendar_events
    /\ UNCHANGED page

\* for slot in slots: the next slot is taken, current_start = slot.start
SliceTake ==
    /\ call.op = "split_loop"
    /\ locals.pc = "for"
    /\ locals.i <= Len(call.slots)
    /\ locals' = [locals EXCEPT !.pc = "while", !.current_start = call.slots[locals.i].start]
    /\ UNCHANGED <<call, result, calendar_events>>
    /\ UNCHANGED page

\* the while test holds: a slice is appended and current_start moves by the duration
SliceAppend ==
    /\ call.op = "split_loop"
    /\ locals.pc = "while"
    /\ locals.current_start + call.duration_minutes <= call.slots[locals.i].end
    /\ call.duration_minutes > 0 \/ Len(result) < MaxSlices
    /\ result' = Append(result,
                        TimeSlot(locals.current_start,
                                 locals.current_start + call.duration_minutes,
                                 call.slots[locals.i].participants,
                                 call.slots[locals.i].source))
    /\ locals' = [locals EXCEPT !.current_start = locals.current_start + call.duration_minutes]
    /\ UNCHANGED <<call, calendar_events>>
    /\ UNCHANGED page

\* the while test holds once more after MaxSlices slices of a duration that is not
\* above zero: the loop goes round again (the test cannot fail any more, as
\* current_start does not move towards slot.end)
SliceOn ==
    /\ call.op = "split_loop"
    /\ locals.pc = "while"
    /\ locals.current_start + call.duration_minutes <= call.slots[locals.i].end
    /\ call.duration_minutes <= 0 /\ Len(result) >= MaxSlices
    /\ locals' = [locals EXCEPT !.unrecorded = 1 - locals.unrecorded]
    /\ UNCHANGED <<call, result, calendar_events>>
    /\ UNCHANGED page

\* the while test fails: the for loop moves on
SliceNext ==
    /\ call.op = "split_loop"
    /\ locals.pc = "while"
    /\ ~(locals.current_start + call.duration_minutes <= call.slots[locals.i].end)
    /\ locals' = [locals EXCEPT !.pc = "for", !.i = locals.i + 1]
    /\ UNCHANGED <<call, result, calendar_events>>
    /\ UNCHANGED page

\* the for loop is exhausted: return result
SliceDone ==
    /\ call.op = "split_loop"
    /\ locals.pc = "for"
    /\ locals.i > Len(call.slots)
    /\ locals' = [locals EXCEPT !.pc = "returned"]
    /\ UNCHANGED <<call, result, calendar_events>>
    /\ UNCHANGED page

\* the caller has the result
SliceReturn ==
    /\ call.op = "split_loop"
    /\ locals.pc = "returned"
    /\ Return

SliceStep == SliceTake \/ SliceAppend \/ SliceOn \/ SliceNext \/ SliceDone

NextSliceLoop == SliceCall \/ SliceTake \/ SliceAppend \/ SliceOn \/ SliceNext \/ SliceDone \/ SliceReturn

\* a call that has been entered keeps running
SpecSliceLoop == InitPure /\ [][NextSliceLoop]_vars /\ WF_vars(SliceStep)

(***************************************************************************)
(* Repeated calls: the first call is remembered and compared with later ones *)
(***************************************************************************)
\* events of mgr_001 on EventDay: apexon 08:00-10:00, client 09:00-13:00 and
\* client 10:00-11:00 local
ReplayPool ==
    {CalendarEvent("mgr_001", x[1],
                   LocalMinuteToUtc(EventDay, x[2], "Asia/Kolkata"),
                   LocalMinuteToUtc(EventDay, x[3], "Asia/Kolkata")) :
        x \in {<<"apexon", 480, 600>>, <<"client", 540, 780>>, <<"client", 600, 660>>}}

ReplayCalendars == UNION {[1..n -> ReplayPool] : n \in 0..MaxEvents}

ReplayRequests ==
    [candidate_id : {"cand_001"}, participants : {<<>>, <<"mgr_001">>},
     duration_minutes : {60}, deadline_date : {Today + 3},
     meeting_type : {"Intro with Hiring Manager"}]

InitReplay ==
    /\ calendar_events \in ReplayCalendars
    /\ call = Idle
    /\ locals = Idle
    /\ result = <<>>
    /\ memo = Idle
    /\ session = NoSession
    /\ sent_emails = <<>>

\* the history of a call that has just returned: the first call may be recorded, and
\* the calls after it are counted (up to 2)
Remember(c, r) ==
    IF memo = Idle
    THEN {Idle, [call |-> c, result |-> r, later |-> 0]}
    ELSE {[memo EXCEPT !.later = Min(memo.later + 1, 2)]}

\* CalendarService.get_merged_availability, one day, with or without a directory entry
ReplayGetMergedAvailability ==
    /\ call = Idle
    /\ \E user_id \in {"mgr_001", "mgr_x"} :
        /\ call' = [op |-> "get_merged_availability", user_id |-> user_id,
                    start_date |-> StartOfDay(EventDay), end_date |-> EndOfDay(EventDay),
                    business_hours_start |-> 9, business_hours_end |-> 18]
        /\ locals' = [busy_slots |->
                        IF get_manager_by_id(user_id) = NoManager THEN <<>>
                        ELSE MergedBusySlots(calendar_events, user_id)]
        /\ result' = get_merged_availability(calendar_events, user_id, StartOfDay(EventDay),
                                             EndOfDay(EventDay), 9, 18)
    /\ calendar_events' = StoredEvents(calendar_events)
    /\ memo' \in Remember(call', result')
    /\ UNCHANGED <<session, sent_emails>>

\* SchedulingEngine.find_meeting_proposals, today (clamped from yesterday) to EventDay
ReplayFindMeetingProposals ==
    /\ call = Idle
    /\ \E request \in ReplayRequests :
        /\ call' = [op |-> "find_meeting_proposals", request |-> request,
                    business_hours_start |-> 9, business_hours_end |-> 18,
                    start_date |-> Today - 1, end_date |-> EventDay,
                    days_before_start |-> 3, days_after_start |-> 7,
                    max_proposals |-> 5, today |-> Today]
        /\ locals' = FindMeetingProposalsLocals(calendar_events, request, 9, 18,
                                                Today - 1, EventDay, 3, 7, Today)
        /\ result' = find_meeting_proposals(locals', 5)
    /\ calendar_events' = StoredEvents(calendar_events)
    /\ memo' \in Remember(call', result')
    /\ UNCHANGED <<session, sent_emails>>

NextReplay == ReplayGetMergedAvailability \/ ReplayFindMeetingProposals \/ Return
SpecReplay == InitReplay /\ [][NextReplay]_vars

(***************************************************************************)
(* _create_proposal on arbitrary slots                                     *)
(***************************************************************************)
\* the longest list of managers among all_participants
MaxParticipants == 3

\* the dates of the slots to score: Friday (the candidate's start date), Saturday,
\* Tuesday (4 days on), Monday and Tuesday a week later (10 and 11 days on)
ScoreDates == {Today + 1, Today + 2, Today + 5, Today + 11, Today + 12}

\* slot.start as a minute of the UTC day: 00:30, 03:30, 08:30, 12:00, 14:30, 20:00
ScoreTimes == {30, 210, 510, 720, 870, 1200}

ScoreSlots ==
    {TimeSlot(d * MinutesPerDay + m, d * MinutesPerDay + m + 30, {"cand"}, "intersection") :
        d \in ScoreDates, m \in ScoreTimes}

\* request.participants: managers of three time zones, one id without an entry and
\* the id of a candidate
ScoreManagerLists ==
    UNION {[1..n -> {"mgr_001", "mgr_002", "mgr_005", "mgr_x", "cand_001"}] : n \in 0..MaxParticipants}

\* request.deadline_date
ScoreDeadlines == {Today + 1, Today + 11}

ScoreRequests ==
    [candidate_id : {"cand_001", "cand_003"}, participants : ScoreManagerLists,
     duration_minutes : {30}, deadline_date : ScoreDeadlines,
     meeting_type : {"Intro with Hiring Manager"}]

\* SchedulingEngine._create_proposal, called as find_meeting_proposals calls it
CreateProposal ==
    /\ call = Idle
    /\ \E slot \in ScoreSlots, request \in ScoreRequests :
        LET candidate == get_candidate_by_id(request.candidate_id)
            all_participants ==
                <<request.candidate_id>>
                \o SelectSeq(request.participants, LAMBDA p : p # request.candidate_id)
        IN  /\ call' = [op |-> "create_proposal", slot |-> slot, request |-> request,
                        candidate |-> candidate, all_participants |-> all_participants,
                        business_hours_start |-> 9, business_hours_end |-> 18]
            /\ result' = create_proposal(slot, request, candidate, all_participants, 9, 18)
    /\ locals' = Idle
    /\ UNCHANGED calendar_events
    /\ UNCHANGED page

NextScore == CreateProposal \/ Return
SpecScore == InitPure /\ [][NextScore]_vars

(***************************************************************************)
(* The chat page: proposals are generated, one is booked, the chat starts  *)
(* over                                                                    *)
(***************************************************************************)
\* the invites that are recorded before booking is cut off
MaxEmails == 2

\* st.session_state.pending_proposal_index = None
NoIndex == 0 - 1

\* st.session_state.meeting_request = None
NoRequest ==
    [candidate_id |-> None, participants |-> <<>>, duration_minutes |-> 0,
     deadline_date |-> 0, meeting_type |-> None]

\* what send_meeting_invite returns for a candidate with no directory entry ({})
NoEmail == [to |-> <<>>, meeting_type |-> None, proposed_time_utc |-> 0]

\* candidate.hiring_manager_id and candidate.reporting_manager_id
PersonaIds ==
    [cand_001 |-> [hiring_manager |-> "mgr_001", reporting_manager |-> "mgr_002"],
     cand_003 |-> [hiring_manager |-> "mgr_002", reporting_manager |-> "mgr_002"]]

\* the personas of a candidate: those named on the candidate that have an entry
get_related_personas_for_candidate(candidate_id) ==
    IF get_candidate_by_id(candidate_id) = NoCandidate THEN [hiring_manager |-> None, reporting_manager |-> None, buddy |-> None]
    ELSE [hiring_manager |-> get_manager_by_id(PersonaIds[candidate_id].hiring_manager).id,
          reporting_manager |-> get_manager_by_id(PersonaIds[candidate_id].reporting_manager).id,
          buddy |-> None]

\* the persona a meeting type asks for
PersonaOf(meeting_type) ==
    CASE meeting_type = "Intro with Hiring Manager" -> "hiring_manager"
      [] meeting_type = "Intro with Reporting Manager" -> "reporting_manager"
      [] meeting_type = "Intro with Buddy" -> "buddy"

\* EmailServiceMock.send_meeting_invite: the record that is appended to sent_emails
\* (the addressees are given by their ids)
send_meeting_invite(proposal, candidate_id, participant_ids) ==
    IF get_candidate_by_id(candidate_id) = NoCandidate THEN NoEmail
    ELSE [to |-> SelectSeq(participant_ids,
                           LAMBDA pid : pid = candidate_id \/ get_manager_by_id(pid) # NoManager),
          meeting_type |-> proposal.meeting_type,
          proposed_time_utc |-> proposal.time_slot.start]

\* a booking that leaves the proposals where they are
confirm_booking_reset_keeps_proposals(s) ==
    [s EXCEPT !.awaiting_confirmation = FALSE, !.pending_proposal_index = NoIndex]

\* the reset of the session state at the end of handle_confirm_booking
confirm_booking_reset(s) ==
    [s EXCEPT !.awaiting_confirmation = FALSE, !.pending_proposal_index = NoIndex,
              !.proposals = <<>>]

\* the names typed to select a candidate, the meeting types and the durations heard
CandidateNames == {"cand_001", "nobody"}
MeetingTypes == {None, "Intro with Hiring Manager", "Intro with Reporting Manager", "Intro with Buddy"}
MeetingDurations == {0, 60}

\* proposal_index of handle_confirm_booking: the best option, the second, one past the end
ProposalIndexes == {0, 1, 5}

\* the session state as the page sets it up, the services as get_services builds them
InitBooking ==
    /\ calendar_events = <<>>
    /\ sent_emails = <<>>
    /\ session = [selected_candidate |-> NoCandidate,
                  meeting_type |-> None,
                  duration |-> 30,
                  proposals |-> <<>>,
                  meeting_request |-> NoRequest,
                  awaiting_confirmation |-> FALSE,
                  pending_proposal_index |-> NoIndex]
    /\ memo = Idle
    /\ call = Idle
    /\ locals = Idle
    /\ result = <<>>

\* handle_select_candidate: the candidate is looked up and selected; a meeting type and
\* a duration heard in the same message are stored (0: none heard)
HandleSelectCandidate ==
    /\ call = Idle
    /\ \E candidate_name \in CandidateNames, meeting_type \in MeetingTypes, duration \in MeetingDurations :
        LET candidate == get_candidate_by_id(candidate_name)
        IN  /\ call' = [op |-> "handle_select_candidate", candidate_name |-> candidate_name,
                        meeting_type |-> meeting_type, duration |-> duration]
            /\ IF candidate = NoCandidate
               THEN /\ session' = session
                    /\ result' = "Candidate Not Found"
               ELSE /\ session' = [session EXCEPT
                                      !.selected_candidate = candidate,
                                      !.meeting_type = IF meeting_type # None THEN meeting_type ELSE @,
                                      !.duration = IF duration # 0 THEN duration ELSE @]
                    /\ result' = "Candidate Selected"
    /\ locals' = Idle
    /\ UNCHANGED <<calendar_events, memo, sent_emails>>

\* handle_generate_proposals
HandleGenerateProposals ==
    /\ call = Idle
    /\ call' = [op |-> "handle_generate_proposals"]
    /\ LET candidate == session.selected_candidate
           meeting_type == session.meeting_type
           persona == get_related_personas_for_candidate(candidate.id)[PersonaOf(meeting_type)]
           start_date == candidate.start_date - 3
           end_date == candidate.start_date + 7
           meeting_request == [candidate_id |-> candidate.id,
                               participants |-> <<candidate.id, persona>>,
                               duration_minutes |-> session.duration,
                               deadline_date |-> end_date,
                               meeting_type |-> meeting_type]
           l == FindMeetingProposalsLocals(calendar_events, meeting_request, 9, 18,
                                           start_date, end_date, 3, 7, Today)
           proposals == find_meeting_proposals(l, 5)
       IN  IF candidate = NoCandidate
           THEN /\ result' = "No Candidate Selected"
                /\ UNCHANGED <<session, memo, locals>>
           ELSE IF meeting_type = None
           THEN /\ result' = "Meeting Type Not Set"
                /\ UNCHANGED <<session, memo, locals>>
           ELSE IF persona = None
           THEN /\ result' = "Not Available"
                /\ UNCHANGED <<session, memo, locals>>
           ELSE /\ session' = [session EXCEPT !.proposals = proposals,
                                              !.meeting_request = meeting_request,
                                              !.awaiting_confirmation = TRUE,
                                              !.pending_proposal_index = 0]
                /\ locals' = l
                /\ memo' = [op |-> "generated", invites |-> 0]
                /\ result' = IF proposals # <<>> THEN "To book a time slot, say:"
                             ELSE "No available times found. Try adjusting the date range?"
    /\ calendar_events' = StoredEvents(calendar_events)
    /\ UNCHANGED sent_emails

\* handle_confirm_booking(proposal_index); memo counts the invites recorded since the
\* last generation
HandleConfirmBooking ==
    /\ call = Idle
    /\ session.proposals # <<>> => Len(sent_emails) < MaxEmails
    /\ \E proposal_index \in ProposalIndexes :
        /\ call' = [op |-> "handle_confirm_booking", proposal_index |-> proposal_index]
        /\ IF session.proposals = <<>>
           THEN /\ result' = "No proposals available. Let's find some meeting times first!"
                /\ UNCHANGED <<session, sent_emails, memo>>
           ELSE IF proposal_index + 1 > Len(session.proposals)
           THEN /\ result' = "IndexError"
                /\ UNCHANGED <<session, sent_emails, memo>>
           ELSE LET proposal == session.proposals[proposal_index + 1]
                    email_record == send_meeting_invite(proposal, session.selected_candidate.id,
                                                        session.meeting_request.participants)
                IN  /\ sent_emails' = IF email_record = NoEmail THEN sent_emails
                                      ELSE Append(sent_emails, email_record)
                    /\ memo' = IF email_record = NoEmail THEN memo
                               ELSE [memo EXCEPT !.invites = @ + 1]
                    /\ session' = confirm_booking_reset(session)
                    /\ result' = "Meeting booked!"
    /\ locals' = Idle
    /\ UNCHANGED calendar_events

\* handle_start_over
HandleStartOver ==
    /\ call = Idle
    /\ call' = [op |-> "handle_start_over"]
    /\ session' = [session EXCEPT !.selected_candidate = NoCandidate,
                                  !.meeting_type = None,
                                  !.duration = 30,
                                  !.proposals = <<>>,
                                  !.meeting_request = NoRequest,
                                  !.awaiting_confirmation = FALSE]
    /\ result' = "Starting fresh! Who would you like to schedule a meeting for?"
    /\ locals' = Idle
    /\ UNCHANGED <<calendar_events, memo, sent_emails>>

NextBooking == HandleSelectCandidate \/ HandleGenerateProposals \/ HandleConfirmBooking \/ HandleStartOver \/ Return

SpecBooking == InitBooking /\ [][NextBooking]_vars

(***************************************************************************)
(* Availability Resolver: claims C1 - C5                                   *)
(***************************************************************************)
\* half-open intervals [s1, e1) and [s2, e2) share an instant
Overlaps(s1, e1, s2, e2) == s1 < e2 /\ s2 < e1

Resolving == call.op = "get_merged_availability"
ResolvingKnown == Resolving /\ get_manager_by_id(call.user_id) # NoManager

\* how often x occurs in seq
Count(seq, x) == Cardinality({i \in 1..Len(seq) : seq[i] = x})

Interval(ev) == <<ev.start, ev.end>>

ClientOf(user_id) == get_client_calendar_events(calendar_events, user_id)
ApexonOf(user_id) == get_apexon_calendar_events(calendar_events, user_id)

\* an apexon event overlaps some client event of its owner
OverlapsClient(ev) ==
    \E i \in 1..Len(ClientOf(ev.owner_id)) :
        Overlaps(ev.start, ev.end, ClientOf(ev.owner_id)[i].start, ClientOf(ev.owner_id)[i].end)

\* the clamped business windows of the call, one per weekday of the range
CallWindows ==
    {w \in {DayWindow(d, get_manager_by_id(call.user_id).location_timezone,
                      call.start_date, call.end_date,
                      call.business_hours_start, call.business_hours_end) :
              d \in {x \in DateOf(call.start_date)..DateOf(call.end_date) : Weekday(x) < 5}} :
        w[1] < w[2]}

\* instant t lies in a business window of the call / in a merged busy slot / in a
\* returned free slot
InWindow(t) == \E w \in CallWindows : w[1] <= t /\ t < w[2]
InBusy(t) ==
    \E j \in 1..Len(locals.busy_slots) :
        locals.busy_slots[j][1] <= t /\ t < locals.busy_slots[j][2]
InFree(t) == \E i \in 1..Len(result) : result[i].start <= t /\ t < result[i].end

\* the instants at which membership of a window, busy slot, event or free slot can
\* change: it suffices to look at these
Breakpoints ==
    {w[1] : w \in CallWindows}
    \cup {locals.busy_slots[j][2] : j \in 1..Len(locals.busy_slots)}
    \cup {calendar_events[k].start : k \in 1..Len(calendar_events)}
    \cup {calendar_events[k].end : k \in 1..Len(calendar_events)}

\* C1: no free interval returned by get_merged_availability overlaps a busy interval
\* that remains after the priority merge (a client event or an apexon event that was
\* not suppressed), also when busy events overlap or contain one another.
C1_FreeNeverOverlapsBusy ==
    Resolving =>
        \A i \in 1..Len(result), j \in 1..Len(locals.busy_slots) :
            ~Overlaps(result[i].start, result[i].end,
                      locals.busy_slots[j][1], locals.busy_slots[j][2])

\* C2: the free intervals returned by get_merged_availability each have start < end,
\* are pairwise non-overlapping, and come in increasing start order (within a day and
\* across days).
C2_FreeDisjointOrdered ==
    Resolving =>
        /\ \A i \in 1..Len(result) : result[i].start < result[i].end
        /\ \A i, j \in 1..Len(result) :
               i < j =>
                   /\ result[i].start < result[j].start
                   /\ ~Overlaps(result[i].start, result[i].end,
                                result[j].start, result[j].end)

\* C2 witness: a call returned three or more free slots on two different dates while
\* two of the merged busy slots overlapped each other.
C2_Witness ==
    /\ Resolving
    /\ Len(result) >= 3
    /\ \E i, j \in 1..Len(result) : DateOf(result[i].start) # DateOf(result[j].start)
    /\ \E i, j \in 1..Len(locals.busy_slots) :
           /\ i # j
           /\ Overlaps(locals.busy_slots[i][1], locals.busy_slots[i][2],
                       locals.busy_slots[j][1], locals.busy_slots[j][2])

\* C3: an apexon event P that overlaps a client event is dropped entirely from the
\* merged busy list, never trimmed: the list holds P's interval only as often as a
\* client event has that very interval, every entry of the list is the whole interval
\* of an event of that person, every client event is in the list, and every instant
\* of P in a business window that lies in no merged busy slot is returned as free.
C3_OverlappingApexonDropped ==
    ResolvingKnown =>
        LET client == ClientOf(call.user_id)
            apexon == ApexonOf(call.user_id)
            clientIntervals == [i \in 1..Len(client) |-> Interval(client[i])]
        IN  /\ \A i \in 1..Len(client) :
                   Count(locals.busy_slots, Interval(client[i]))
                       >= Count(clientIntervals, Interval(client[i]))
            /\ \A j \in 1..Len(locals.busy_slots) :
                   \E k \in 1..Len(calendar_events) :
                       /\ calendar_events[k].owner_id = call.user_id
                       /\ Interval(calendar_events[k]) = locals.busy_slots[j]
            /\ \A i \in 1..Len(apexon) :
                   OverlapsClient(apexon[i]) =>
                       /\ Count(locals.busy_slots, Interval(apexon[i]))
                              = Count(clientIntervals, Interval(apexon[i]))
                       /\ \A t \in Breakpoints :
                              (/\ apexon[i].start <= t /\ t < apexon[i].end
                               /\ InWindow(t) /\ ~InBusy(t)) => InFree(t)

\* C3 witness: an apexon event overlapped a client event, and a part of it outside
\* every merged busy slot was returned as free.
C3_Witness ==
    /\ ResolvingKnown
    /\ \E i \in 1..Len(ApexonOf(call.user_id)) :
           LET P == ApexonOf(call.user_id)[i]
           IN  /\ OverlapsClient(P)
               /\ \E t \in Breakpoints :
                      /\ P.start <= t /\ t < P.end
                      /\ InWindow(t) /\ ~InBusy(t) /\ InFree(t)

\* C4: every apexon event that overlaps no client event (one that only touches a
\* client event, one that overlaps another apexon event) stays in the merged busy list,
\* and no returned free interval covers any part of it.
C4_OnlyClientSuppresses ==
    ResolvingKnown =>
        \A i \in 1..Len(ApexonOf(call.user_id)) :
            LET P == ApexonOf(call.user_id)[i]
            IN  ~OverlapsClient(P) =>
                    /\ Count(locals.busy_slots, Interval(P)) >= 1
                    /\ \A k \in 1..Len(result) :
                           ~Overlaps(result[k].start, result[k].end, P.start, P.end)

\* C5: the merged busy list is sorted by start and pairwise disjoint.
C5_MergedBusySortedDisjoint ==
    Resolving =>
        \A i, j \in 1..Len(locals.busy_slots) :
            i < j =>
                /\ locals.busy_slots[i][1] <= locals.busy_slots[j][1]
                /\ ~Overlaps(locals.busy_slots[i][1], locals.busy_slots[i][2],
                             locals.busy_slots[j][1], locals.busy_slots[j][2])

(***************************************************************************)
(* Multi-participant intersection: claims C6 - C8                          *)
(***************************************************************************)
Finding == call.op = "find_meeting_proposals"
FindingKnown == Finding /\ locals.candidate # NoCandidate

\* the free-time lists the fold runs over: the candidate's, then each manager's
FoldedLists ==
    <<locals.candidate_free_slots>>
    \o [i \in 1..Len(locals.manager_availabilities) |->
            locals.manager_availabilities[i].slots]

\* instant t lies in a slot of the list
InSlots(slots, t) == \E i \in 1..Len(slots) : slots[i].start <= t /\ t < slots[i].end

\* the starts and ends of the slots of a list
Ends(slots) ==
    {slots[i].start : i \in 1..Len(slots)} \cup {slots[i].end : i \in 1..Len(slots)}

\* C6: the slots produced by folding _intersect_slots over the candidate's list and
\* every manager's list are exactly the common free time: each output interval lies
\* inside a free interval of every participant's list, and every instant that is free
\* in every participant's list lies in an output interval.
C6_FoldIsCommonFreeTime ==
    (FindingKnown /\ locals.manager_availabilities # <<>>) =>
        LET lists == FoldedLists
            out == locals.overlapping
            points == UNION {Ends(lists[k]) : k \in 1..Len(lists)} \cup Ends(out)
        IN  /\ \A i \in 1..Len(out) :
                   /\ out[i].start < out[i].end
                   /\ \A k \in 1..Len(lists) :
                          \E j \in 1..Len(lists[k]) :
                              /\ lists[k][j].start <= out[i].start
                              /\ out[i].end <= lists[k][j].end
            /\ \A t \in points :
                   (\A k \in 1..Len(lists) : InSlots(lists[k], t)) => InSlots(out, t)

\* C6 witness: two managers' lists were folded in, a manager's list had a gap cut by a
\* busy event, and the common free time is neither empty nor the candidate's own list.
C6_Witness ==
    /\ FindingKnown
    /\ Len(locals.manager_availabilities) = 2
    /\ locals.overlapping # <<>>
    /\ Len(locals.overlapping) > Len(locals.candidate_free_slots)
    /\ \E i \in 1..Len(locals.overlapping) :
           \A j \in 1..Len(locals.candidate_free_slots) :
               <<locals.overlapping[i].start, locals.overlapping[i].end>>
                   # <<locals.candidate_free_slots[j].start, locals.candidate_free_slots[j].end>>

Intervals(slots) == {<<slots[i].start, slots[i].end>> : i \in 1..Len(slots)}

\* the fold over the three lists taken in the order p
FoldInOrder(lists, p) ==
    FoldIntersect(lists[p[1]], <<[id |-> "2", slots |-> lists[p[2]]],
                                 [id |-> "3", slots |-> lists[p[3]]]>>)

\* C7: intersection is order-independent: _intersect_slots(A, B) and
\* _intersect_slots(B, A) yield the same set of intervals, and folding three lists
\* pairwise yields the same set of intervals in every order.
C7_IntersectionOrderIndependent ==
    /\ call.op = "intersect_slots" =>
           Intervals(result) = Intervals(intersect_slots(call.slots2, call.slots1))
    /\ call.op = "fold" =>
           \A p \in Permutations(1..3) :
               Intervals(FoldInOrder(call.lists, p)) = Intervals(result)

\* C7 witness: an intersection of two two-slot lists returned several intervals, in
\* an order other than that of the swapped call.
C7_Witness ==
    /\ call.op = "intersect_slots"
    /\ Len(result) >= 2
    /\ LET swapped == intersect_slots(call.slots2, call.slots1)
       IN  [i \in 1..Len(result) |-> <<result[i].start, result[i].end>>]
               # [i \in 1..Len(swapped) |-> <<swapped[i].start, swapped[i].end>>]

(***************************************************************************)
(* Slot slicer: claims C9, C10                                             *)
(***************************************************************************)
Splitting == call.op = "split_slots_by_duration"

RECURSIVE Flatten(_)
Flatten(seqs) == IF seqs = <<>> THEN <<>> ELSE Head(seqs) \o Flatten(Tail(seqs))

\* C9: every sub-slot emitted by _split_slots_by_duration is exactly duration_minutes
\* long, and no two sub-slots emitted from the same source interval overlap.
C9_SliceLengthAndDisjoint ==
    Splitting =>
        LET d == call.duration_minutes
            perSource == [i \in 1..Len(call.slots) |-> SplitOne(call.slots[i], d)]
        IN  /\ \A k \in 1..Len(result) : result[k].end - result[k].start = d
            /\ result = Flatten(perSource)
            /\ \A i \in 1..Len(perSource) :
                   \A k, m \in 1..Len(perSource[i]) :
                       k # m => ~Overlaps(perSource[i][k].start, perSource[i][k].end,
                                          perSource[i][m].start, perSource[i][m].end)

\* C9 witness: a slot was cut into three or more sub-slots.
C9_Witness ==
    /\ Splitting
    /\ \E i \in 1..Len(call.slots) : Len(SplitOne(call.slots[i], call.duration_minutes)) >= 3

\* the sub-slots a source interval must yield: floor(L / d) of them, the k-th (from 0)
\* starting at source.start + k * d
Expected(slot, d) ==
    [k \in 1..((slot.end - slot.start) \div d) |->
        TimeSlot(slot.start + (k - 1) * d, slot.start + k * d,
                 slot.participants, slot.source)]

\* C10: a source interval of length L yields exactly floor(L / d) sub-slots, the k-th
\* starting at source.start + k * d, all inside the source; a remainder shorter than d
\* yields none.
C10_SliceCount ==
    Splitting =>
        LET d == call.duration_minutes
            expected == [i \in 1..Len(call.slots) |-> Expected(call.slots[i], d)]
        IN  /\ result = Flatten(expected)
            /\ \A i \in 1..Len(call.slots) :
                   \A k \in 1..Len(expected[i]) :
                       /\ call.slots[i].start <= expected[i][k].start
                       /\ expected[i][k].end <= call.slots[i].end

\* C10 witness: the 70-minute slot sliced by 45 minutes gave exactly one sub-slot, and
\* a 20-minute slot in the same list gave none.
C10_Witness ==
    /\ Splitting
    /\ call.duration_minutes = 45
    /\ Len(call.slots) = 2
    /\ call.slots[1].end - call.slots[1].start = 70
    /\ call.slots[2].end - call.slots[2].start = 20
    /\ Len(result) = 1
    /\ result[1].end - result[1].start = 45

(***************************************************************************)
(* Scorer: claims C11 - C14                                                *)
(***************************************************************************)
Scoring == call.op = "create_proposal"

\* the calendar date of instant t on the wall clock of time zone tzname
LocalDate(t, tzname) == DateOf(t + UtcOffset(tzname))

\* the time zone of participant p of call c; None for an id with no directory entry
ZoneOf(c, p) ==
    IF p = c.candidate.id THEN c.candidate.location_timezone
    ELSE get_manager_by_id(p).location_timezone

\* participant p of call c is outside business hours at the start of slot
OutOfHours(c, slot, p) ==
    /\ ZoneOf(c, p) # None
    /\ \/ LocalHour(slot.start, ZoneOf(c, p)) < c.business_hours_start
       \/ LocalHour(slot.start, ZoneOf(c, p)) >= c.business_hours_end

\* the entries of all_participants that are outside business hours
OutOfHoursCount(c, slot) ==
    Cardinality({i \in 1..Len(c.all_participants) : OutOfHours(c, slot, c.all_participants[i])})

\* 0 within 3 days of the candidate's start date, 1 within 7 days, 2 beyond
DistanceTier(c, slot) ==
    LET days == Abs(DateOf(slot.start) - c.candidate.start_date)
    IN  IF days > 7 THEN 2 ELSE IF days > 3 THEN 1 ELSE 0

\* "morning", "evening" or "day" on the candidate's wall clock
DayPart(c, slot) ==
    LET hour == LocalHour(slot.start, c.candidate.location_timezone)
    IN  IF 9 <= hour /\ hour < 12 THEN "morning"
        ELSE IF hour >= 17 THEN "evening" ELSE "day"

\* the adjustments of every rule but the deadline rule
OtherAdjustments(c, slot) ==
    (CASE DistanceTier(c, slot) = 2 -> 0 - 20
       [] DistanceTier(c, slot) = 1 -> 0 - 10
       [] OTHER -> 0)
    - 15 * OutOfHoursCount(c, slot)
    + (CASE DayPart(c, slot) = "morning" -> 10
         [] DayPart(c, slot) = "evening" -> 0 - 5
         [] OTHER -> 0)
    + (IF Weekday(DateOf(slot.start)) \in 0..4 THEN 5 ELSE 0)

\* the slot's date, on the UTC calendar, is later than the deadline
AfterDeadline(c, slot) == DateOf(slot.start) > c.request.deadline_date

\* the slot's date, on the candidate's calendar, is later than the deadline
AfterDeadlineLocal(c, slot) ==
    LocalDate(slot.start, c.candidate.location_timezone) > c.request.deadline_date

\* two slots on which every rule but the deadline rule sees the same
SameOtherRules(c, slot1, slot2) ==
    /\ DistanceTier(c, slot1) = DistanceTier(c, slot2)
    /\ \A i \in 1..Len(c.all_participants) :
          OutOfHours(c, slot1, c.all_participants[i])
          <=> OutOfHours(c, slot2, c.all_participants[i])
    /\ DayPart(c, slot1) = DayPart(c, slot2)
    /\ (Weekday(DateOf(slot1.start)) \in 0..4) <=> (Weekday(DateOf(slot2.start)) \in 0..4)

\* the score _create_proposal gives to another slot under the arguments of call c
ScoreOf(c, slot) ==
    create_proposal(slot, c.request, c.candidate, c.all_participants,
                    c.business_hours_start, c.business_hours_end).score

\* the slots that differ from the call's slot in the deadline rule only: the call's
\* slot is after the deadline, they are not
WithinDeadlineTwins ==
    {other \in ScoreSlots :
        /\ AfterDeadline(call, call.slot)
        /\ ~AfterDeadline(call, other)
        /\ SameOtherRules(call, call.slot, other)}

C12_ScoreNonNegative ==
    Scoring => result.score >= 0

\* the deadline, distance, evening and three business-hours penalties stack below 0
C12_Witness ==
    /\ Scoring
    /\ AfterDeadline(call, call.slot)
    /\ DistanceTier(call, call.slot) = 2
    /\ DayPart(call, call.slot) = "evening"
    /\ OutOfHoursCount(call, call.slot) >= 3
    /\ 100 - 50 + OtherAdjustments(call, call.slot) < 0
    /\ result.score = 0

\* C13: a proposal carries the 50-point deduction and the violation "After deadline"
\* exactly when the date of slot.start on the local calendar (not the UTC calendar)
\* is later than request.deadline
C13_DeadlineOnLocalDate ==
    Scoring =>
        /\ (\E i \in 1..Len(result.constraints_violated) :
               result.constraints_violated[i] = "After deadline")
           <=> AfterDeadlineLocal(call, call.slot)
        /\ result.score =
              Max(0, 100 - (IF AfterDeadlineLocal(call, call.slot) THEN 50 ELSE 0)
                     + OtherAdjustments(call, call.slot))

\* C14: the score is max(0, 100 + adjustments): -50 after the deadline; -20 beyond 7
\* days from the candidate's start date, else -10 beyond 3 days; -15 for each
\* participant outside business hours on their own clock; +10 in the candidate's
\* morning, else -5 in the candidate's evening; +5 on a UTC weekday
C14_ScoreIsSumOfAdjustments ==
    Scoring =>
        result.score =
            Max(0, 100 - (IF AfterDeadline(call, call.slot) THEN 50 ELSE 0)
                   + OtherAdjustments(call, call.slot))

\* a slot on which the deadline, far-distance, business-hours, evening and weekday
\* rules all apply and the sum stays above 0; the candidate's morning differs from a
\* manager's
C14_Witness ==
    /\ Scoring
    /\ AfterDeadline(call, call.slot)
    /\ DistanceTier(call, call.slot) = 2
    /\ OutOfHoursCount(call, call.slot) = 1
    /\ DayPart(call, call.slot) = "evening"
    /\ Weekday(DateOf(call.slot.start)) \in 0..4
    /\ result.score = 100 - 50 - 20 - 15 - 5 + 5

(***************************************************************************)
(* Ranking and truncation: claims C15, C16                                 *)
(***************************************************************************)
\* the proposal _create_proposal makes of the i-th slot the slicer produced
ProposalOf(i) ==
    create_proposal(locals.overlapping_slots[i], call.request, locals.candidate,
                    locals.all_participants, call.business_hours_start,
                    call.business_hours_end)

\* entry k of the result is the proposal of the i-th slot of the slicer
FromSlot(k, i) == result[k].time_slot = locals.overlapping_slots[i]

\* C15: the returned list is sorted by non-increasing score, and two proposals with
\* equal score stand in the order in which the slicer produced their slots
C15_RankedDescendingStable ==
    FindingKnown =>
        /\ \A k \in 1..(Len(result) - 1) : result[k].score >= result[k + 1].score
        /\ \A k, m \in 1..Len(result) :
              (k < m /\ result[k].score = result[m].score)
              => \E i, j \in 1..Len(locals.overlapping_slots) :
                    i < j /\ FromSlot(k, i) /\ FromSlot(m, j)

\* the result holds two proposals of equal score and a proposal of lower score, and a
\* returned slot was produced later than a slot that ranks below it
C15_Witness ==
    /\ FindingKnown
    /\ \E k, m \in 1..Len(result) : k < m /\ result[k].score = result[m].score
    /\ \E k, m \in 1..Len(result) : k < m /\ result[k].score > result[m].score
    /\ \E k, m \in 1..Len(result) :
          /\ k < m
          /\ \E i, j \in 1..Len(locals.overlapping_slots) :
                j < i /\ FromSlot(k, i) /\ FromSlot(m, j)

\* C16: the result holds at most max_proposals proposals, they are the first entries
\* of the ranked list, and no slot left out scores strictly higher than a returned one
C16_TruncatedToMaxProposals ==
    FindingKnown =>
        /\ Len(result) <= call.max_proposals
        /\ Len(result) = Min(call.max_proposals, Len(locals.overlapping_slots))
        /\ result = SubSeq(locals.proposals, 1, Len(result))
        /\ \A i \in 1..Len(locals.overlapping_slots) :
              LET proposal == ProposalOf(i)
              IN  \/ \E k \in 1..Len(result) : result[k] = proposal
                  \/ \A k \in 1..Len(result) : proposal.score <= result[k].score

\* more slots than max_proposals: one left out ties with the last returned proposal
\* and one scores lower
C16_Witness ==
    /\ FindingKnown
    /\ Len(locals.overlapping_slots) > call.max_proposals
    /\ Len(result) = call.max_proposals
    /\ \E i, j \in 1..Len(locals.overlapping_slots) :
          /\ \A k \in 1..Len(result) : result[k] # ProposalOf(i) /\ result[k] # ProposalOf(j)
          /\ ProposalOf(i).score = result[Len(result)].score
          /\ ProposalOf(j).score < result[Len(result)].score

(***************************************************************************)
(* Not-found, invalid requests and degenerate windows: claims C17 - C20    *)
(***************************************************************************)
\* C17: get_merged_availability returns an empty list for a person with no directory
\* entry and find_meeting_proposals returns an empty list for an unknown candidate;
\* neither computes any availability
C17_NotFoundIsEmpty ==
    /\ (Resolving /\ get_manager_by_id(call.user_id) = NoManager)
       => (result = <<>> /\ locals.busy_slots = <<>>)
    /\ (Finding /\ get_candidate_by_id(call.request.candidate_id) = NoCandidate)
       => (result = <<>> /\ DOMAIN locals = {"candidate"})

\* a person with no directory entry was asked for under arguments that give a person
\* with an entry free time
C17_Witness ==
    /\ Resolving
    /\ get_manager_by_id(call.user_id) = NoManager
    /\ get_merged_availability(calendar_events, "mgr_005", call.start_date, call.end_date,
                               call.business_hours_start, call.business_hours_end) # <<>>
    /\ result = <<>>

\* a participant of the request, other than the candidate, has no directory entry
UnknownParticipant ==
    \E i \in 1..Len(call.request.participants) :
        /\ call.request.participants[i] # call.request.candidate_id
        /\ get_manager_by_id(call.request.participants[i]) = NoManager

\* C18: when request.participants holds a manager id with no directory entry,
\* find_meeting_proposals returns no proposal
C18_UnknownParticipantNoProposal ==
    (FindingKnown /\ UnknownParticipant) => result = <<>>

\* a request with a duration <= 0, no participant, or a deadline before today
InvalidRequest(request, today) ==
    \/ request.duration_minutes <= 0
    \/ request.participants = <<>>
    \/ request.deadline_date < today

\* C19: for an invalid request find_meeting_proposals does no availability
\* resolution, intersection, slicing or scoring, and returns no proposal
C19_InvalidRequestRejected ==
    (FindingKnown /\ InvalidRequest(call.request, call.today))
    => (result = <<>> /\ DOMAIN locals = {"candidate"})

\* C20: the start date is clamped to today; when the end date is then not after the
\* start date the window becomes [start, start + 7 days]; so the window resolved has
\* start >= today and end > start, and the call returns a list
C20_WindowRepaired ==
    FindingKnown =>
        LET start0 == IF call.start_date = NoDate
                      THEN locals.candidate.start_date - call.days_before_start
                      ELSE call.start_date
            end0 == IF call.end_date = NoDate
                    THEN locals.candidate.start_date + call.days_after_start
                    ELSE call.end_date
        IN  /\ locals.start_date = Max(start0, call.today)
            /\ end0 <= locals.start_date => locals.end_date = locals.start_date + 7
            /\ end0 > locals.start_date => locals.end_date = end0
            /\ locals.start_date >= call.today
            /\ locals.end_date > locals.start_date
            /\ locals.start_datetime = StartOfDay(locals.start_date)
            /\ locals.end_datetime = EndOfDay(locals.end_date)
            /\ \A i \in 1..Len(locals.candidate_free_slots) :
                  /\ locals.candidate_free_slots[i].start >= locals.start_datetime
                  /\ locals.candidate_free_slots[i].end <= locals.end_datetime
            /\ result \in Seq({ProposalOf(i) : i \in 1..Len(locals.overlapping_slots)})

\* a start date in the past with an end date not after it: the window runs from today
\* to today + 7 and yields proposals
C20_Witness ==
    /\ FindingKnown
    /\ call.start_date # NoDate /\ call.start_date < call.today
    /\ call.end_date # NoDate /\ call.end_date <= call.start_date
    /\ locals.start_date = call.today
    /\ locals.end_date = call.today + 7
    /\ result # <<>>

(***************************************************************************)
(* End-to-end scenarios and properties: claims C21 - C29                   *)
(***************************************************************************)
\* the scenario of C21: a candidate in Asia/Kolkata, the one manager mgr_002 in
\* America/Los_Angeles, business hours 9-18, 30 minutes, no event of either
KolkataLosAngeles ==
    /\ FindingKnown
    /\ locals.candidate.location_timezone = "Asia/Kolkata"
    /\ call.request.participants = <<"mgr_002">>
    /\ get_manager_by_id("mgr_002").location_timezone = "America/Los_Angeles"
    /\ call.business_hours_start = 9 /\ call.business_hours_end = 18
    /\ call.request.duration_minutes = 30
    /\ \A k \in 1..Len(calendar_events) :
          calendar_events[k].owner_id \notin {"mgr_002", call.request.candidate_id}

\* the start of a slot is inside business hours on the wall clock of tzname
InsideHours(slot, tzname) ==
    /\ call.business_hours_start <= LocalHour(slot.start, tzname)
    /\ LocalHour(slot.start, tzname) < call.business_hours_end

\* C21 as stated: in the scenario the result is not empty; its top proposal starts on
\* a weekday inside 9-18 local for both parties, carries no violation and scores at
\* least 105 when the weekday bonus and the morning bonus apply
C21_KolkataLosAngelesTopProposal ==
    KolkataLosAngeles =>
        /\ result # <<>>
        /\ Weekday(DateOf(result[1].time_slot.start)) \in 0..4
        /\ InsideHours(result[1].time_slot, "Asia/Kolkata")
        /\ InsideHours(result[1].time_slot, "America/Los_Angeles")
        /\ result[1].constraints_violated = <<>>
        /\ (LocalHour(result[1].time_slot.start, "Asia/Kolkata") \in 9..11)
           => result[1].score >= 105

\* C21 amended: in the scenario the result is empty, because no instant is inside 9-18
\* on both wall clocks
C21_KolkataLosAngelesNoCommonTime ==
    KolkataLosAngeles =>
        /\ result = <<>>
        /\ locals.overlapping = <<>>
        /\ \A i \in 1..Len(locals.candidate_free_slots) :
              \A t \in {locals.candidate_free_slots[i].start,
                        locals.candidate_free_slots[i].end - 1} :
                  LocalHour(t, "America/Los_Angeles") \notin 9..17

\* the scenario, with free time found for the candidate and for the manager on
\* several days
C21_Witness ==
    /\ KolkataLosAngeles
    /\ Len(locals.candidate_free_slots) >= 2
    /\ Len(locals.manager_availabilities) = 1
    /\ Len(locals.manager_availabilities[1].slots) >= 2
    /\ result = <<>>

LocalMinute(t, tzname) == (t + UtcOffset(tzname)) % MinutesPerDay

\* a free slot lies inside the overall window [window_start, window_end] and inside
\* the business window [hours_start:00, hours_end:00) of one local date of tzname
\* that is a Monday to Friday
InsideOneBusinessDay(slot, tzname, window_start, window_end, hours_start, hours_end) ==
    /\ slot.start < slot.end
    /\ window_start <= slot.start /\ slot.end <= window_end
    /\ LocalDate(slot.start, tzname) = LocalDate(slot.end - 1, tzname)
    /\ Weekday(LocalDate(slot.start, tzname)) \in 0..4
    /\ hours_start * MinutesPerHour <= LocalMinute(slot.start, tzname)
    /\ LocalMinute(slot.end - 1, tzname) < hours_end * MinutesPerHour

\* C23: every free slot of get_merged_availability and of _get_candidate_availability
\* lies inside the overall window and inside the person's business window of a single
\* local Monday to Friday
C23_FreeSlotsInsideBusinessDays ==
    /\ ResolvingKnown =>
          \A i \in 1..Len(result) :
              InsideOneBusinessDay(result[i],
                  get_manager_by_id(call.user_id).location_timezone,
                  call.start_date, call.end_date,
                  call.business_hours_start, call.business_hours_end)
    /\ FindingKnown =>
          /\ \A i \in 1..Len(locals.candidate_free_slots) :
                InsideOneBusinessDay(locals.candidate_free_slots[i],
                    locals.candidate.location_timezone,
                    locals.start_datetime, locals.end_datetime,
                    call.business_hours_start, call.business_hours_end)
          /\ \A m \in 1..Len(locals.manager_availabilities) :
                \A i \in 1..Len(locals.manager_availabilities[m].slots) :
                    InsideOneBusinessDay(locals.manager_availabilities[m].slots[i],
                        get_manager_by_id(locals.manager_availabilities[m].id).location_timezone,
                        locals.start_datetime, locals.end_datetime,
                        call.business_hours_start, call.business_hours_end)

\* a window from Thursday to Saturday resolved for a manager in Los Angeles: free time
\* of the local Friday that ends on the UTC Saturday is returned, and nothing of the
\* local Saturday
C23_Witness ==
    /\ ResolvingKnown
    /\ UtcOffset(get_manager_by_id(call.user_id).location_timezone) < 0
    /\ Weekday(DateOf(call.end_date)) = 5
    /\ \E i \in 1..Len(result) : Weekday(DateOf(result[i].end - 1)) = 5
    /\ Len(result) >= 2

\* the free lists collected by find_meeting_proposals share an interval of d minutes:
\* some slot start t has [t, t + d) inside a slot of every list
CommonFreeFor(d) ==
    \E k0 \in 1..Len(FoldedLists) :
        \E j0 \in 1..Len(FoldedLists[k0]) :
            LET t == FoldedLists[k0][j0].start
            IN  \A k \in 1..Len(FoldedLists) :
                    \E j \in 1..Len(FoldedLists[k]) :
                        /\ FoldedLists[k][j].start <= t
                        /\ t + d <= FoldedLists[k][j].end

\* C24: with a known candidate, duration > 0 and max_proposals >= 1,
\* find_meeting_proposals returns an empty list exactly when the common free time of
\* the candidate and the managers holds no interval of the requested duration
C24_EmptyIffNoCommonInterval ==
    (FindingKnown /\ call.request.duration_minutes > 0 /\ call.max_proposals >= 1)
    => (result = <<>> <=> ~CommonFreeFor(call.request.duration_minutes))

\* the candidate and a manager each have free time, none of it in common, and the
\* result is the empty list
C24_Witness ==
    /\ FindingKnown
    /\ locals.manager_availabilities # <<>>
    /\ \A k \in 1..Len(FoldedLists) : FoldedLists[k] # <<>>
    /\ ~CommonFreeFor(call.request.duration_minutes)
    /\ locals.overlapping_slots = <<>>
    /\ result = <<>>

\* an intersection of two lists followed by slicing has returned
Overlapped == call # Idle /\ call.op = "intersect_then_split"

\* the pairs <<i, j>> of slots of the two lists that overlap in more than a point
OverlappingPairs(slots1, slots2) ==
    {p \in (1..Len(slots1)) \X (1..Len(slots2)) :
        Max(slots1[p[1]].start, slots2[p[2]].start) < Min(slots1[p[1]].end, slots2[p[2]].end)}

\* the slot owed to the pair p
OwedSlot(slots1, slots2, p) ==
    [start |-> Max(slots1[p[1]].start, slots2[p[2]].start),
     end |-> Min(slots1[p[1]].end, slots2[p[2]].end),
     participants |-> slots1[p[1]].participants \cup slots2[p[2]].participants,
     source |-> "intersection"]

\* how often the slot s occurs in the list slots
Occurrences(slots, s) == Cardinality({k \in 1..Len(slots) : slots[k] = s})

\* the slices of the list slots are cut[1], cut[2], ... in order: every slice lies in
\* the slot it is cut from and has that slot's participants and source
RECURSIVE CarriedThrough(_, _, _)
CarriedThrough(slots, cut, d) ==
    IF slots = <<>> THEN cut = <<>>
    ELSE LET n == (Head(slots).end - Head(slots).start) \div d
         IN  /\ Len(cut) >= n
             /\ \A k \in 1..n :
                   /\ cut[k].participants = Head(slots).participants
                   /\ cut[k].source = Head(slots).source
                   /\ Head(slots).start <= cut[k].start
                   /\ cut[k].end <= Head(slots).end
             /\ CarriedThrough(Tail(slots), SubSeq(cut, n + 1, Len(cut)), d)

\* C25: the intersection of two lists holds one slot for every pair that overlaps in
\* more than a point (the overlap, the union of the two participant sets, source
\* "intersection") and nothing else, and every slice has the participants and the
\* source of the slot it was cut from
C25_OneSlotPerOverlappingPair ==
    /\ Overlapped =>
          LET pairs == OverlappingPairs(call.slots1, call.slots2)
          IN  /\ Len(locals.overlapping) = Cardinality(pairs)
              /\ \A p \in pairs :
                    Occurrences(locals.overlapping, OwedSlot(call.slots1, call.slots2, p))
                    = Cardinality({q \in pairs : OwedSlot(call.slots1, call.slots2, q)
                                                 = OwedSlot(call.slots1, call.slots2, p)})
              /\ CarriedThrough(locals.overlapping, result, call.duration_minutes)
    /\ (call # Idle /\ call.op = "split_slots_by_duration") =>
          CarriedThrough(call.slots, result, call.duration_minutes)

\* two lists with a pair that overlaps, a pair that only touches and two pairs with
\* different participant sets; the intersection is cut into more slices than it has
\* slots
C25_Witness ==
    /\ Overlapped
    /\ \E i \in 1..Len(call.slots1), j \in 1..Len(call.slots2) :
          call.slots1[i].end = call.slots2[j].start
    /\ \E k, l \in 1..Len(locals.overlapping) :
          locals.overlapping[k].participants # locals.overlapping[l].participants
    /\ \E k \in 1..Len(locals.overlapping) :
          Cardinality(locals.overlapping[k].participants) = 3
    /\ Len(result) > Len(locals.overlapping)
    /\ \A k \in 1..Len(result) : result[k].source = "intersection"

\* the positions of all_participants that are outside business hours at the start of
\* the slot
OutOfHoursPositions(c, slot) ==
    {i \in 1..Len(c.all_participants) : OutOfHours(c, slot, c.all_participants[i])}

\* the violation owed to position i of all_participants
HoursLabel(c, slot, i) ==
    IF LocalHour(slot.start, ZoneOf(c, c.all_participants[i])) < c.business_hours_start
    THEN "Before business hours for " \o c.all_participants[i]
    ELSE "After business hours for " \o c.all_participants[i]

\* C26: constraints_violated holds "After deadline" first when the slot is after the
\* deadline, then one business-hours violation for every position of all_participants
\* that is outside business hours, in the order of all_participants and with
\* repeated participants repeated; it is empty exactly when neither rule fired
C26_ViolationsInRuleOrder ==
    Scoring =>
        LET v == result.constraints_violated
            late == AfterDeadline(call, call.slot)
            first == IF late THEN 1 ELSE 0
            positions == OutOfHoursPositions(call, call.slot)
        IN  /\ call.all_participants[1] = call.request.candidate_id
            /\ Tail(call.all_participants)
               = SelectSeq(call.request.participants, LAMBDA p : p # call.request.candidate_id)
            /\ Len(v) = first + Cardinality(positions)
            /\ late => v[1] = "After deadline"
            /\ \A i \in positions :
                  v[first + Cardinality({j \in positions : j <= i})] = HoursLabel(call, call.slot, i)
            /\ (v = <<>>) <=> (~late /\ positions = {})

\* a late slot that is before business hours for one participant and after them for
\* another, scored for a request that names one manager twice and the candidate too
C26_Witness ==
    /\ Scoring
    /\ AfterDeadline(call, call.slot)
    /\ \E i, j \in OutOfHoursPositions(call, call.slot) :
          /\ i < j
          /\ call.all_participants[i] = call.all_participants[j]
    /\ \E i, j \in OutOfHoursPositions(call, call.slot) :
          /\ i < j
          /\ HoursLabel(call, call.slot, i) = "After business hours for " \o call.all_participants[i]
          /\ HoursLabel(call, call.slot, j) = "Before business hours for " \o call.all_participants[j]
    /\ Len(call.all_participants) <= Len(call.request.participants)
    /\ Len(result.constraints_violated) >= 4

\* _split_slots_by_duration is running, one iteration at a time
Slicing == call.op = "split_loop"

\* _split_slots_by_duration has returned
Sliced == call.op = "split_loop" /\ locals.pc = "returned"

\* C27: _split_slots_by_duration, once entered, returns, whatever the duration
C27_SlicingLoopFinishes == Slicing ~> Sliced

\* with a duration above zero the loops do finish
PositiveDurationsFinish == (Slicing /\ call.duration_minutes > 0) ~> Sliced

\* with a duration that is not above zero the while test holds, and holds after any
\* number of further iterations: current_start does not move towards slot.end
StillLooping ==
    (Slicing /\ locals.pc = "while" /\ call.duration_minutes <= 0) =>
        \A n \in 0..MaxSlices :
            locals.current_start + (n + 1) * call.duration_minutes <= call.slots[locals.i].end

\* with a duration above zero the result of the loops is the sliced list
SlicedAsComputed ==
    (Sliced /\ call.duration_minutes > 0)
    => result = split_slots_by_duration(call.slots, call.duration_minutes)

\* the event is a busy event of a known manager among request.participants that the
\* priority merge leaves standing: a client event, or an apexon event that overlaps
\* no client event of its owner
SurvivingBusyEvent(ev) ==
    /\ \E i \in 1..Len(call.request.participants) : call.request.participants[i] = ev.owner_id
    /\ ev.owner_id # call.request.candidate_id
    /\ get_manager_by_id(ev.owner_id) # NoManager
    /\ \/ ev.calendar_type = "client"
       \/ ev.calendar_type = "apexon" /\ ~OverlapsClient(ev)

\* C28: every proposal returned by find_meeting_proposals (duration > 0) has a slot of
\* exactly duration_minutes that lies inside the candidate's business-hours window and
\* overlaps no busy event of a known manager among request.participants that is left
\* standing by the priority merge, whatever the calendars hold
C28_ProposalsAvoidBusyEvents ==
    (FindingKnown /\ call.request.duration_minutes > 0) =>
        \A i \in 1..Len(result) :
            LET slot == result[i].time_slot
            IN  /\ slot.end - slot.start = call.request.duration_minutes
                /\ InsideOneBusinessDay(slot, locals.candidate.location_timezone,
                       locals.start_datetime, locals.end_datetime,
                       call.business_hours_start, call.business_hours_end)
                /\ \A k \in 1..Len(calendar_events) :
                      SurvivingBusyEvent(calendar_events[k])
                      => ~Overlaps(slot.start, slot.end,
                                   calendar_events[k].start, calendar_events[k].end)

\* the running find_meeting_proposals call as the scorer sees it
ScoredCall ==
    [request |-> call.request, candidate |-> locals.candidate,
     all_participants |-> locals.all_participants,
     business_hours_start |-> call.business_hours_start,
     business_hours_end |-> call.business_hours_end]

\* the business-hours violations a proposal can carry
HoursViolations ==
    {"Before business hours for " \o locals.all_participants[i] : i \in 1..Len(locals.all_participants)}
    \cup {"After business hours for " \o locals.all_participants[i] : i \in 1..Len(locals.all_participants)}

\* the score of a slot on which the business-hours rule takes nothing off
ScoreWithoutHoursPenalty(c, slot) ==
    Max(0, 100 - (IF AfterDeadline(c, slot) THEN 50 ELSE 0)
           + OtherAdjustments(c, slot) + 15 * OutOfHoursCount(c, slot))

\* C29: no proposal returned by find_meeting_proposals carries a business-hours
\* violation or its 15 points: its slot starts inside business hours on the wall clock
\* of the candidate and of every known manager of the request
C29_NoBusinessHoursViolation ==
    (FindingKnown /\ call.business_hours_start < call.business_hours_end) =>
        \A i \in 1..Len(result) :
            /\ \A k \in 1..Len(result[i].constraints_violated) :
                  result[i].constraints_violated[k] \notin HoursViolations
            /\ \A k \in 1..Len(locals.all_participants) :
                  ~OutOfHours(ScoredCall, result[i].time_slot, locals.all_participants[k])
            /\ result[i].score = ScoreWithoutHoursPenalty(ScoredCall, result[i].time_slot)

\* proposals for a candidate in Kolkata and managers in Kolkata and London: the
\* candidate's free time starts outside the business hours of London, the proposals
\* do not
C29_Witness ==
    /\ FindingKnown
    /\ result # <<>>
    /\ \E m \in 1..Len(locals.manager_availabilities) :
          /\ get_manager_by_id(locals.manager_availabilities[m].id).location_timezone
             # locals.candidate.location_timezone
          /\ \E j \in 1..Len(locals.candidate_free_slots) :
                OutOfHours(ScoredCall, locals.candidate_free_slots[j],
                           locals.manager_availabilities[m].id)
    /\ \A i \in 1..Len(result) :
          \A k \in 1..Len(locals.all_participants) :
              ~OutOfHours(ScoredCall, result[i].time_slot, locals.all_participants[k])

(***************************************************************************)
(* Booking protocol: claim C30                                             *)
(***************************************************************************)
\* the step is a call of handle_confirm_booking
Confirming == call = Idle /\ call'.op = "handle_confirm_booking"

\* C30: sent_emails grows only by one invite, appended by a handle_confirm_booking that
\* found proposals; a confirm that books leaves no proposals and no pending
\* confirmation; a confirm that finds no proposals records nothing and answers "No
\* proposals available..."; no generation is followed by more than one recorded invite
C30_BookingProtocol ==
    [][/\ sent_emails' # sent_emails =>
             /\ Confirming
             /\ session.proposals # <<>>
             /\ Len(sent_emails') = Len(sent_emails) + 1
             /\ SubSeq(sent_emails', 1, Len(sent_emails)) = sent_emails
       /\ (Confirming /\ result' = "Meeting booked!") =>
             /\ session'.proposals = <<>>
             /\ ~session'.awaiting_confirmation
       /\ (Confirming /\ session.proposals = <<>>) =>
             /\ sent_emails' = sent_emails
             /\ result' = "No proposals available. Let's find some meeting times first!"
       /\ memo' # Idle => memo'.invites <= 1]_vars

\* proposals were generated, one was booked and its invite recorded, and a second
\* confirm has found no proposals
C30_Witness ==
    /\ call.op = "handle_confirm_booking"
    /\ result = "No proposals available. Let's find some meeting times first!"
    /\ memo # Idle
    /\ memo.invites = 1
    /\ Len(sent_emails) = 1
    /\ Len(sent_emails[1].to) = 2
    /\ session.proposals = <<>>
    /\ session.selected_candidate # NoCandidate
    /\ ~session.awaiting_confirmation

====
